---- MODULE Spec2Model ----
(***************************************************************************)
(* Model of the download manager (client/core/download.ts: downloadAsync,  *)
(* downloadToDirectory, customCheckSum) and of the archive extractor       *)
(* (client/utils/extract.ts: extract, extractEntry, decompressEntry), of   *)
(* withRetry (client/utils/retry.ts) and of installJDK of                  *)
(* holmhub/create-mcprofile.                                               *)
(*                                                                         *)
(* JavaScript runs one callback at a time: every action below is the code  *)
(* that runs between two suspension points (an await that really waits, a  *)
(* timer, an I/O completion).                                              *)
(***************************************************************************)
EXTENDS Integers, Sequences, FiniteSets, TLC

(***************************************************************************)
(* Bounds of the model                                                     *)
(***************************************************************************)
\* number of download tasks (destination files) a run may touch
NumTasks == 2
\* cap on the fetches one downloadAsync call may issue (never reached by the code)
MaxAttempts == 3

Tasks == 1..NumTasks

(***************************************************************************)
(* State of downloadAsync, one call (and its retry) per task               *)
(***************************************************************************)
VARIABLES
    dl_pc,        \* position of the call: idle, fetch (awaiting fetch), stream (awaiting reader.read), finish (awaiting 'finish'), done, crashed
    dl_retry0,    \* the retry argument the caller passed
    dl_retry,     \* the retry argument of the running invocation
    dl_attempts,  \* fetch() calls issued by the call so far
    dl_timer,     \* the setTimeout(() => controller.abort()) callbacks of the task's attempts that are pending
    dl_file,      \* the destination file: absent, good (sha1 as expected), bad (other content), partial, directory (a directory stands at its path)
    dl_stream,    \* the running attempt's WriteStream: none, opening, open
    dl_orphan,    \* the WriteStreams left behind by failed attempts whose open is still pending
    dl_last,      \* how the latest finished attempt ended: [kind, status, attempt]
    dl_completed  \* 'download' events emitted

dlVars == <<dl_pc, dl_retry0, dl_retry, dl_attempts, dl_timer, dl_file,
            dl_stream, dl_orphan, dl_last, dl_completed>>

(***************************************************************************)
(* State of downloadToDirectory                                            *)
(***************************************************************************)
VARIABLES
    libraries,    \* the libraries argument: one record per task
    lib_file0,    \* the destination file of each task when the batch was called
    dir_pc,       \* the batch call: idle, waiting (in Promise.all), returned, rejected
    lib_pc,       \* each map callback: pending, dl1 / dl2 (awaiting the first / second downloadLibrary), finished, skipped
    lib_redo,     \* downloadLibrary calls issued by the checksum branch, per task
    counter,      \* the module-level counter
    progress,     \* the 'progress' events emitted: [task, total]
    libs          \* the returned list, as the tasks whose path was pushed

dirVars == <<libraries, lib_file0, dir_pc, lib_pc, lib_redo, counter, progress, libs>>

\* the state of extract (extract.ts)
VARIABLES
    ex_entries,     \* entries.values(): the archive's entries in Map order, [name, method, data]
    ex_pc,          \* the extract call: idle, racing (awaiting Promise.race), woken (the race has resolved), resolved, rejected
    ex_next,        \* the entry the iterator stands at
    ex_active,      \* activePromises, as the entries they belong to
    ex_state,       \* each entry: queued, early / mkdir / stat / inflate / write (in flight, by what it awaits), settled, removed
    ex_error,       \* why an entry failed: none, unsafe, mkdir, method, inflate, write
    ex_current,     \* current
    ex_progress,    \* the onProgress calls made: [done, total]
    ex_createdDirs, \* createdDirs
    ex_dirs,        \* the directories that exist
    ex_files,       \* the files that exist
    ex_data,        \* the contents of the files: pairs of a path and the entry written
    ex_run,         \* 1 during the first extractAll call, 2 during the second
    ex_first,       \* what the first call left, kept when the second is made
    ex_mkdir        \* how the mkdir call of each entry went: none (not made or pending), made (the directory is made, the completion not delivered yet), ok, exists (rejected, stat found the directory), fail (rejected, stat found none)

exVars == <<ex_entries, ex_pc, ex_next, ex_active, ex_state, ex_error, ex_current,
            ex_progress, ex_createdDirs, ex_dirs, ex_files, ex_data, ex_run, ex_first, ex_mkdir>>

\* the state of one entry handle returned by getEntry (extract.ts)
VARIABLES
    h_entry,        \* originalEntryData: the entry the handle was made for
    h_runs,         \* the decompressEntry calls made through the handle: pending, fulfilled, rejected
    h_cache,        \* decompressedDataPromise: 0 for null, else the run whose promise it holds
    h_calls,        \* the getBuffer / getText / extractTo calls made: [op, pc, run, cached, result]
    h_files         \* the files extractTo created or replaced

hVars == <<h_entry, h_runs, h_cache, h_calls, h_files>>

\* the state of one customCheckSum call (download.ts)
VARIABLES
    sum_hash,       \* the hash argument, a sequence of characters
    sum_file,       \* the file at filename: missing, unreadable, or its content
    sum_file0,      \* the file when the call was made
    sum_pc,         \* the call: idle, reading (awaiting readFile), resolved, rejected
    sum_result      \* the value the call resolved to

sumVars == <<sum_hash, sum_file, sum_file0, sum_pc, sum_result>>

\* the state of one getEntriesFromCentralDirectory call (extract.ts)
VARIABLES
    zip_case,       \* how the buffer was made: the files written and what was damaged afterwards
    zip_buffer,     \* the buffer argument, a sequence of bytes
    zip_result,     \* what the call did: none before it, then its outcome
    zip_out         \* what decompressEntry gave for each entry of the index, once it was called

zipVars == <<zip_case, zip_buffer, zip_result, zip_out>>

\* the state of one withRetry call (retry.ts)
VARIABLES
    rt_pc,          \* the call: idle, operation (awaiting operation()), timer (awaiting the setTimeout), returned, thrown
    rt_args,        \* the retries and delay arguments the caller passed
    rt_retries,     \* the retries argument of the running invocation
    rt_delay,       \* the delay argument of the running invocation
    rt_calls,       \* the operation() calls made, each pending, resolved or rejected
    rt_waits,       \* the delays setTimeout was called with
    rt_result       \* what the call settled with: [kind, call], the value or the error of operation call `call`

rtVars == <<rt_pc, rt_args, rt_retries, rt_delay, rt_calls, rt_waits, rt_result>>

\* the state of two downloadToDirectory batches that overlap (download.ts);
\* they share the module-level counter
VARIABLES
    tb_total,       \* libraries.length of each batch
    tb_pc,          \* each batch call: idle, waiting (in Promise.all), returned
    tb_left,        \* the map callbacks of each batch that still await their download
    tb_progress     \* the 'progress' events each batch emitted: [task, total]

tbVars == <<tb_total, tb_pc, tb_left, tb_progress>>

\* the state of one installJDK call (java.ts)
VARIABLES
    jdk_pc,         \* the call: idle, url (awaiting getJDKDownloadUrl), download (awaiting downloadAsync), returned, thrown, crashed (the process ended)
    jdk_archive,    \* what is at downloadPath: absent, archive, unreadable, directory
    jdk_lookup      \* what readdirSync(javaDir) gave when the JDK folder was looked up: none before

jdkVars == <<jdk_pc, jdk_archive, jdk_lookup>>

toolVars == <<hVars, sumVars, zipVars, rtVars, tbVars, jdkVars>>

vars == <<dlVars, dirVars, exVars, toolVars>>

\* response statuses the server may answer with
Statuses == {200, 204, 404, 500}

\* response.ok
ResponseOk(s) == s >= 200 /\ s <= 299

\* response.body is null for a null-body status, so getReader() is never called
HasBody(s) == s \notin {204, 205, 304}

IsNotFound_never(s) == FALSE

\* response.status === 404
IsNotFound(s) == s = 404

\* the retry argument of the recursive call in the catch block
RetryArgument == FALSE

InFlight == {"fetch", "stream", "finish"}

\* how attempt n of a call ended
Outcome(k, s, n) == [kind |-> k, status |-> s, attempt |-> n]

NoOutcome == Outcome("none", 0, 0)

\* the process is alive: an 'error' event nobody listens to ends it
Alive == \A j \in Tasks : dl_pc[j] # "crashed"

\* the start of an invocation up to `await fetch(...)`. For every task in S:
\* mkdirSync, a new AbortController and its timer, fetch issued. For every
\* task in R mkdirSync throws (a file stands at the directory's path or above
\* it): it stands before the try, so the promise of the call is rejected with
\* no timer set and no fetch issued. Either way no attempt is streaming
BeginWith(S, R, r, timers) ==
    /\ dl_pc' = [j \in Tasks |-> IF j \in S THEN "fetch"
                                 ELSE IF j \in R THEN "rejected" ELSE dl_pc[j]]
    /\ dl_retry' = [j \in Tasks |-> IF j \in S \cup R THEN r ELSE dl_retry[j]]
    /\ dl_timer' = [j \in Tasks |-> IF j \in S THEN timers[j] + 1 ELSE timers[j]]
    /\ dl_stream' = [j \in Tasks |-> IF j \in S \cup R THEN "none" ELSE dl_stream[j]]

Begin(S, R, r) == BeginWith(S, R, r, dl_timer)

\* clearTimeout(timeout) ran, or the timer fired: one pending timer less
OneTimerLess(i) == [dl_timer EXCEPT ![i] = @ - 1]

\* the ways through the catch block: unlinkSync and the recursive call both
\* return (through), unlinkSync throws (unlink), or the mkdirSync of the
\* recursive call throws (mkdir)
CatchWays == {"through", "unlink", "mkdir"}

\* the catch block: unlink the file if it is there, then retry or return.
\* `stream` is the attempt's WriteStream at the throw; nothing closes it.
\* `timers` are the timers pending at the throw: the catch block clears none,
\* so the timer of an attempt whose fetch rejected stays pending. What the
\* catch block throws rejects the promise of the call: unlinkSync throws on a
\* directory (EISDIR) and can throw on a file (EACCES, EPERM, EBUSY), and the
\* recursive call throws when its mkdirSync does, before any fetch
Catch(i, kind, status, stream, timers, way) ==
    /\ dl_retry[i] => dl_attempts[i] < MaxAttempts
    /\ way = "unlink" => dl_file[i] # "absent"
    /\ way # "unlink" => dl_file[i] # "directory"
    /\ way = "mkdir" => dl_retry[i]
    /\ dl_last' = [dl_last EXCEPT ![i] = Outcome(kind, status, dl_attempts[i])]
    /\ dl_file' = IF way = "unlink" THEN dl_file ELSE [dl_file EXCEPT ![i] = "absent"]
    /\ dl_orphan' = [dl_orphan EXCEPT ![i] = @ + (IF stream = "opening" THEN 1 ELSE 0)]
    /\ IF way = "unlink"
       THEN /\ dl_pc' = [dl_pc EXCEPT ![i] = "rejected"]
            /\ dl_timer' = timers
            /\ dl_stream' = [dl_stream EXCEPT ![i] = "none"]
            /\ UNCHANGED <<dl_retry, dl_attempts>>
       ELSE IF dl_retry[i]
       THEN /\ BeginWith(IF way = "mkdir" THEN {} ELSE {i},
                         IF way = "mkdir" THEN {i} ELSE {}, RetryArgument, timers)
            /\ dl_attempts' = [dl_attempts EXCEPT ![i] =
                                   IF way = "mkdir" THEN @ ELSE @ + 1]
       ELSE /\ dl_pc' = [dl_pc EXCEPT ![i] = "done"]
            /\ dl_timer' = timers
            /\ dl_stream' = [dl_stream EXCEPT ![i] = "none"]
            /\ UNCHANGED <<dl_retry, dl_attempts>>
    /\ UNCHANGED <<dl_retry0, dl_completed>>

\* downloadAsync(url, directory, name, retry, type) is called for every task
\* in S and in R, the directory of the tasks in R being one mkdirSync throws on
StartCall(S, R, r) ==
    /\ Begin(S, R, r)
    /\ dl_retry0' = [j \in Tasks |-> IF j \in S \cup R THEN r ELSE dl_retry0[j]]
    /\ dl_attempts' = [j \in Tasks |-> IF j \in S THEN 1
                                       ELSE IF j \in R THEN 0 ELSE dl_attempts[j]]
    /\ dl_last' = [j \in Tasks |-> IF j \in S \cup R THEN NoOutcome ELSE dl_last[j]]
    /\ UNCHANGED <<dl_file, dl_orphan, dl_completed>>

\* fetch resolves with a response of status s
ResponseArrives(i, s, way) ==
    /\ Alive
    /\ dl_pc[i] = "fetch"
    /\ (IsNotFound(s) \/ (ResponseOk(s) /\ HasBody(s))) => way = "through"
    /\ IF ~ResponseOk(s)
       THEN IF IsNotFound(s)
            THEN /\ dl_pc' = [dl_pc EXCEPT ![i] = "done"]
                 /\ dl_timer' = OneTimerLess(i)
                 /\ dl_last' = [dl_last EXCEPT ![i] = Outcome("status", s, dl_attempts[i])]
                 /\ UNCHANGED <<dl_retry0, dl_retry, dl_attempts, dl_file,
                                dl_stream, dl_orphan, dl_completed>>
            ELSE Catch(i, "status", s, "none", OneTimerLess(i), way)
       ELSE IF ~HasBody(s)
            THEN Catch(i, "nobody", s, "opening", OneTimerLess(i), way)
            ELSE /\ dl_pc' = [dl_pc EXCEPT ![i] = "stream"]
                 /\ dl_timer' = OneTimerLess(i)
                 /\ dl_stream' = [dl_stream EXCEPT ![i] = "opening"]
                 /\ UNCHANGED <<dl_retry0, dl_retry, dl_attempts, dl_file,
                                dl_orphan, dl_last, dl_completed>>
    /\ UNCHANGED <<dirVars, exVars, toolVars>>

\* fetch rejects with a network error: clearTimeout is not reached
FetchRejects(i, way) ==
    /\ Alive
    /\ dl_pc[i] = "fetch"
    /\ Catch(i, "network", 0, "none", dl_timer, way)
    /\ UNCHANGED <<dirVars, exVars, toolVars>>

\* timeoutms after the attempt started its timer fires, unless clearTimeout
\* ran first: controller.abort() makes the pending fetch reject. The timer of
\* the attempt is pending for as long as its fetch is; it can fire before the
\* timer an earlier attempt left behind, the retry being called without
\* timeoutms and so with the default
Timeout(i, way) ==
    /\ Alive
    /\ dl_pc[i] = "fetch"
    /\ Catch(i, "timeout", 0, "none", OneTimerLess(i), way)
    /\ UNCHANGED <<dirVars, exVars, toolVars>>

\* the timer of an attempt whose fetch rejected fires (one of the pending
\* timers that is not the one of a fetch in flight): controller.abort() on a
\* fetch that is over does nothing
LateTimeout(i) ==
    /\ Alive
    /\ dl_timer[i] > (IF dl_pc[i] = "fetch" THEN 1 ELSE 0)
    /\ dl_timer' = OneTimerLess(i)
    /\ UNCHANGED <<dl_pc, dl_retry0, dl_retry, dl_attempts, dl_file,
                   dl_stream, dl_orphan, dl_last, dl_completed>>
    /\ UNCHANGED <<dirVars, exVars, toolVars>>

\* the WriteStream's asynchronous open completes: the file is created or
\* truncated; on a directory the open fails
StreamOpens(i) ==
    /\ Alive
    /\ dl_pc[i] \in {"stream", "finish"}
    /\ dl_file[i] # "directory"
    /\ dl_stream[i] = "opening"
    /\ dl_stream' = [dl_stream EXCEPT ![i] = "open"]
    /\ dl_file' = [dl_file EXCEPT ![i] = "partial"]
    /\ UNCHANGED <<dl_pc, dl_retry0, dl_retry, dl_attempts, dl_timer,
                   dl_orphan, dl_last, dl_completed>>
    /\ UNCHANGED <<dirVars, exVars, toolVars>>

\* the open of a WriteStream whose attempt has already failed completes
OrphanOpens(i) ==
    /\ Alive
    /\ dl_orphan[i] > 0
    /\ dl_file[i] # "directory"
    /\ dl_orphan' = [dl_orphan EXCEPT ![i] = @ - 1]
    /\ dl_file' = [dl_file EXCEPT ![i] = "partial"]
    /\ UNCHANGED <<dl_pc, dl_retry0, dl_retry, dl_attempts, dl_timer,
                   dl_stream, dl_last, dl_completed>>
    /\ UNCHANGED <<dirVars, exVars, toolVars>>

\* the open of a WriteStream whose attempt has already failed fails (the
\* directory is gone, the path is a directory, no permission): the stream
\* emits 'error' with no listener, an uncaught exception that ends the
\* process, whether the call has returned or its retry is running
OrphanFails(i) ==
    /\ Alive
    /\ dl_orphan[i] > 0
    /\ dl_pc' = [j \in Tasks |->
           IF j = i \/ dl_pc[j] \in InFlight THEN "crashed" ELSE dl_pc[j]]
    /\ dl_timer' = [j \in Tasks |-> 0]
    /\ dl_stream' = [j \in Tasks |-> "none"]
    /\ dl_orphan' = [j \in Tasks |-> 0]
    /\ UNCHANGED <<dl_retry0, dl_retry, dl_attempts, dl_file, dl_last, dl_completed>>
    /\ UNCHANGED <<dirVars, exVars, toolVars>>

\* the WriteStream emits 'error' (open or write failed). No listener is
\* registered and the emit happens outside the try block: the catch never
\* runs, the error is an uncaught exception and the process ends, and with it
\* every call in flight, every pending timer and every pending open
StreamError(i) ==
    /\ Alive
    /\ dl_pc[i] \in {"stream", "finish"}
    /\ dl_stream[i] \in {"opening", "open"}
    /\ dl_pc' = [j \in Tasks |-> IF dl_pc[j] \in InFlight THEN "crashed" ELSE dl_pc[j]]
    /\ dl_last' = [dl_last EXCEPT ![i] = Outcome("write", 0, dl_attempts[i])]
    /\ dl_timer' = [j \in Tasks |-> 0]
    /\ dl_stream' = [j \in Tasks |-> "none"]
    /\ dl_orphan' = [j \in Tasks |-> 0]
    /\ UNCHANGED <<dl_retry0, dl_retry, dl_attempts, dl_file, dl_completed>>
    /\ UNCHANGED <<dirVars, exVars, toolVars>>

\* the read loop ends: every chunk read so far was handed to file.write and
\* reported by 'download-status'; reader.read() resolves with done, file.end()
\* is called and the call waits for 'finish'
BodyEnds(i) ==
    /\ Alive
    /\ dl_pc[i] = "stream"
    /\ dl_pc' = [dl_pc EXCEPT ![i] = "finish"]
    /\ UNCHANGED <<dl_retry0, dl_retry, dl_attempts, dl_timer, dl_file,
                   dl_stream, dl_orphan, dl_last, dl_completed>>
    /\ UNCHANGED <<dirVars, exVars, toolVars>>

\* reader.read() rejects (connection lost while streaming)
ReadFails(i, way) ==
    /\ Alive
    /\ dl_pc[i] = "stream"
    /\ Catch(i, "network", 0, dl_stream[i], dl_timer, way)
    /\ UNCHANGED <<dirVars, exVars, toolVars>>

\* 'finish': everything is flushed; emit 'download' and return
Finished(i, content) ==
    /\ Alive
    /\ dl_pc[i] = "finish"
    /\ dl_stream[i] = "open"
    /\ dl_pc' = [dl_pc EXCEPT ![i] = "done"]
    /\ dl_file' = [dl_file EXCEPT ![i] = content]
    /\ dl_stream' = [dl_stream EXCEPT ![i] = "none"]
    /\ dl_completed' = [dl_completed EXCEPT ![i] = @ + 1]
    /\ dl_last' = [dl_last EXCEPT ![i] = Outcome("ok", 200, dl_attempts[i])]
    /\ UNCHANGED <<dl_retry0, dl_retry, dl_attempts, dl_timer, dl_orphan>>
    /\ UNCHANGED <<dirVars, exVars, toolVars>>

(***************************************************************************)
(* downloadToDirectory                                                     *)
(***************************************************************************)

\* rule.os.name against getOS(): a rule names no os, this os or another one
Rule(action, os) == [action |-> action, os |-> os]

RECURSIVE RuleLoop(_, _, _)
\* the for loop of parseRule: a rule without os sets allowed and goes on,
\* the first rule for this os sets it and breaks
RuleLoop(rules, k, allowed) ==
    IF k > Len(rules) THEN allowed
    ELSE IF rules[k].os = "any" THEN RuleLoop(rules, k + 1, rules[k].action = "allow")
    ELSE IF rules[k].os = "this" THEN rules[k].action = "allow"
    ELSE RuleLoop(rules, k + 1, allowed)

\* parseRule(lib): TRUE when the library is excluded
parseRule(lib) ==
    IF Len(lib.rules) = 0 THEN FALSE ELSE ~RuleLoop(lib.rules, 1, FALSE)

Library(present, rules, artifact, url) ==
    [present |-> present, rules |-> rules, artifact |-> artifact, url |-> url]

\* the libraries a batch is made of: a null element, a library a rule
\* disallows on this os, a library with downloads.artifact (sha1 and url), a
\* library whose artifact has no url (a generated dependency)
LibraryKinds ==
    { Library(FALSE, <<>>, FALSE, FALSE),
      Library(TRUE, <<Rule("allow", "any"), Rule("disallow", "this")>>, TRUE, TRUE),
      Library(TRUE, <<>>, TRUE, TRUE),
      Library(TRUE, <<>>, TRUE, FALSE) }

\* a JavaScript value: a boolean or a Promise of one
JsBoolean(b) == [kind |-> "boolean", value |-> b]

JsPromise(b) == [kind |-> "promise", value |-> b]

\* the ! operator converts its operand with ToBoolean: every object is truthy
ToBoolean(x) == IF x.kind = "boolean" THEN x.value ELSE TRUE

\* customCheckSum(hash, filename): an async function, so the call returns a
\* Promise; it resolves to hash === sha1(file), and to false when the read fails
customCheckSum(i) == JsPromise(dl_file[i] = "good")

existsSync_never(i) == FALSE

\* existsSync(join(jarPath, name))
existsSync(i) == dl_file[i] # "absent"

\* the condition of the second if: library.downloads?.artifact &&
\* !customCheckSum(...), the call not awaited
ChecksumBranch(i) == libraries[i].artifact /\ ~ToBoolean(customCheckSum(i))

\* the callback returns at once: a null library or one a rule excludes
SkippedTask(i) == ~libraries[i].present \/ parseRule(libraries[i])

\* tasks of S in index order
RECURSIVE InOrder(_)
InOrder(S) ==
    IF S = {} THEN <<>>
    ELSE LET m == CHOOSE x \in S : \A y \in S : x <= y
         IN <<m>> \o InOrder(S \ {m})

Bump_none(c, k) == c

\* counter++, done k times
Bump(c, k) == c + k

\* counter++; emit 'progress'; libs.push, for the tasks of sequence q in turn
FinishTasks(q) ==
    /\ counter' = Bump(counter, Len(q))
    /\ progress' = progress \o [k \in 1..Len(q) |->
                       [task |-> Bump(counter, k), total |-> Len(libraries)]]
    /\ libs' = libs \o q

\* downloadToDirectory is called: libraries.map runs every callback up to its
\* first await, in order. A task whose downloadAsync call is rejected at
\* mkdirSync (R) rejects its callback and with it Promise.all and the batch
\* call, at once; the callbacks of the other tasks go on
StartBatch ==
    /\ Alive
    /\ dir_pc = "idle"
    /\ LET skipped == {i \in Tasks : SkippedTask(i)}
           first == {i \in Tasks \ skipped : ~existsSync(i)}
           second == {i \in Tasks \ (skipped \cup first) : ChecksumBranch(i)}
           direct == Tasks \ (skipped \cup first \cup second)
       IN \E R \in SUBSET {i \in first : libraries[i].url} :
          /\ lib_pc' = [i \in Tasks |->
                 IF i \in skipped THEN "skipped"
                 ELSE IF i \in R THEN "rejected"
                 ELSE IF i \in first THEN "dl1"
                 ELSE IF i \in second THEN "dl2" ELSE "finished"]
          /\ lib_redo' = [i \in Tasks |-> IF i \in second THEN 1 ELSE 0]
          /\ StartCall({i \in first \cup second : libraries[i].url} \ R, R, TRUE)
          /\ FinishTasks(InOrder(direct))
          /\ dir_pc' = IF R = {} THEN "waiting" ELSE "rejected"
    /\ UNCHANGED <<libraries, lib_file0, exVars, toolVars>>

\* the callback of task i resumes after `await downloadLibrary(library)`
ContinueTask(i) ==
    /\ Alive
    /\ dir_pc \in {"waiting", "rejected"}
    /\ lib_pc[i] \in {"dl1", "dl2"}
    /\ dl_pc[i] \in {"idle", "done"}
    /\ IF lib_pc[i] = "dl1" /\ ChecksumBranch(i)
       THEN /\ lib_pc' = [lib_pc EXCEPT ![i] = "dl2"]
            /\ lib_redo' = [lib_redo EXCEPT ![i] = @ + 1]
            /\ StartCall(IF libraries[i].url THEN {i} ELSE {}, {}, TRUE)
            /\ UNCHANGED <<counter, progress, libs>>
       ELSE /\ lib_pc' = [lib_pc EXCEPT ![i] = "finished"]
            /\ FinishTasks(<<i>>)
            /\ UNCHANGED <<dlVars, lib_redo>>
    /\ UNCHANGED <<libraries, lib_file0, dir_pc, exVars, toolVars>>

\* the downloadAsync call the callback of task i awaits was rejected (its
\* catch block threw): the callback is rejected and with it Promise.all and
\* the batch call; the callbacks of the other tasks go on
TaskRejects(i) ==
    /\ Alive
    /\ dir_pc \in {"waiting", "rejected"}
    /\ lib_pc[i] \in {"dl1", "dl2"}
    /\ dl_pc[i] = "rejected"
    /\ lib_pc' = [lib_pc EXCEPT ![i] = "rejected"]
    /\ dir_pc' = "rejected"
    /\ UNCHANGED <<dlVars, libraries, lib_file0, lib_redo, counter, progress, libs,
                   exVars, toolVars>>

\* Promise.all resolves: counter = 0; return libs
ReturnBatch ==
    /\ Alive
    /\ dir_pc = "waiting"
    /\ \A i \in Tasks : lib_pc[i] \in {"finished", "skipped"}
    /\ counter' = 0
    /\ dir_pc' = "returned"
    /\ UNCHANGED <<dlVars, libraries, lib_file0, lib_pc, lib_redo, progress, libs, exVars, toolVars>>

InitDirectory ==
    /\ dir_pc = "idle"
    /\ lib_pc = [i \in Tasks |-> "pending"]
    /\ lib_redo = [i \in Tasks |-> 0]
    /\ counter = 0
    /\ progress = <<>>
    /\ libs = <<>>

(***************************************************************************)
(* Paths and entry names (extract.ts). A name is a sequence of characters, *)
(* a path a sequence of segments, each segment a sequence of characters;   *)
(* a path that ends in a separator has an empty last segment.              *)
(***************************************************************************)
\* entryName.replace(/\\/g, '/')
ReplaceBackslashes(name) ==
    [k \in 1..Len(name) |-> IF name[k] = "\\" THEN "/" ELSE name[k]]

\* String.prototype.includes
Includes(s, sub) ==
    \E k \in 1..(Len(s) - Len(sub) + 1) : SubSeq(s, k, k + Len(sub) - 1) = sub

\* String.prototype.endsWith, for a one-character suffix
EndsWith(s, c) == Len(s) > 0 /\ s[Len(s)] = c

RECURSIVE SplitFrom(_, _, _)
\* the segments of s[k..] between "/" characters, cur being the segment begun
SplitFrom(s, k, cur) ==
    IF k > Len(s) THEN <<cur>>
    ELSE IF s[k] = "/" THEN <<cur>> \o SplitFrom(s, k + 1, <<>>)
    ELSE SplitFrom(s, k + 1, Append(cur, s[k]))

Split(s) == SplitFrom(s, 1, <<>>)

DotDot == <<".", ".">>

RECURSIVE NormalizeFrom(_, _, _)
\* path.normalize on a relative path: empty and "." segments are dropped,
\* ".." removes the segment before it, or stays when there is none to remove;
\* a separator at the end of the path is kept
NormalizeFrom(segs, k, acc) ==
    IF k > Len(segs)
    THEN IF Len(segs) > 1 /\ segs[Len(segs)] = <<>> THEN Append(acc, <<>>) ELSE acc
    ELSE IF segs[k] = <<>> \/ segs[k] = <<".">> THEN NormalizeFrom(segs, k + 1, acc)
    ELSE IF segs[k] = DotDot
         THEN IF Len(acc) > 0 /\ acc[Len(acc)] # DotDot
              THEN NormalizeFrom(segs, k + 1, SubSeq(acc, 1, Len(acc) - 1))
              ELSE NormalizeFrom(segs, k + 1, Append(acc, DotDot))
    ELSE NormalizeFrom(segs, k + 1, Append(acc, segs[k]))

\* the directory extract is called with
OutputDir == <<"out">>

\* path.join(outputDir, name): an empty name is left out of the join
join(dir, name) ==
    NormalizeFrom(IF name = <<>> THEN <<dir>> ELSE <<dir>> \o Split(name), 1, <<>>)

\* the path ends in a separator
TrailingSeparator(path) == Len(path) > 0 /\ path[Len(path)] = <<>>

\* the path without the separator at its end: what it names in the file system
WithoutSeparator(path) ==
    IF TrailingSeparator(path) THEN SubSeq(path, 1, Len(path) - 1) ELSE path

\* path.dirname: a separator at the end is not counted
dirname(path) == SubSeq(WithoutSeparator(path), 1, Len(WithoutSeparator(path)) - 1)

\* a path lies inside the output directory
Inside(path) == Len(path) >= 1 /\ path[1] = OutputDir

\* the directories mkdir(dir, {recursive: true}) makes sure exist
Ancestors(dir) == {SubSeq(dir, 1, k) : k \in 1..Len(dir)}

(***************************************************************************)
(* State of extract (extractAll)                                           *)
(***************************************************************************)
CONCURRENCY_LIMIT == 10

STORE == 0

DEFLATE == 8

Entry(name, method, data) == [name |-> name, method |-> method, data |-> data]

Entries == 1..Len(ex_entries)

\* safeName of extractEntry
SafeName(i) == ReplaceBackslashes(ex_entries[i].name)

Unsafe_never(i) == FALSE

\* safeName.includes('..')
Unsafe(i) == Includes(SafeName(i), DotDot)

IsDirectory_never(i) == FALSE

\* entryName.endsWith('/')
IsDirectory(i) == EndsWith(ex_entries[i].name, "/")

\* targetPath of extractEntry
TargetPath(i) == join(OutputDir, SafeName(i))

ParentDir(i) == dirname(TargetPath(i))

\* what decompressEntry does with the entry: "none" when it yields the bytes
DecompressError(e) ==
    IF e.method = STORE THEN "none"
    ELSE IF e.method = DEFLATE
         THEN IF e.data = "empty" THEN "none"
              ELSE IF e.data = "corrupt" THEN "inflate" ELSE "none"
    ELSE "method"

PoolHasRoom_one_more(len) == len <= CONCURRENCY_LIMIT

\* activePromises.length < CONCURRENCY_LIMIT
PoolHasRoom(len) == len < CONCURRENCY_LIMIT

CatchesEntryError_not == FALSE

\* processEntry wraps extractEntry in try / catch / finally
CatchesEntryError == TRUE

RECURSIVE FillCount(_, _)
\* the entries the inner while loop starts, from pool length len and entry nxt
FillCount(len, nxt) ==
    IF PoolHasRoom(len) /\ nxt <= Len(ex_entries)
    THEN 1 + FillCount(len + 1, nxt + 1)
    ELSE 0

\* extractEntry up to its first await: a rejected name and a directory entry
\* settle at once, a parent directory not in createdDirs is created, otherwise
\* decompressEntry is called
StartPhaseIn(i, createdDirs) ==
    IF Unsafe(i) \/ IsDirectory(i) THEN "early"
    ELSE IF ParentDir(i) \in createdDirs THEN "inflate"
    ELSE "mkdir"

StartPhase(i) == StartPhaseIn(i, ex_createdDirs)

InFlightStates == {"early", "mkdir", "stat", "inflate", "write"}

ProgressTotal_files == Cardinality({i \in Entries : ~IsDirectory(i)})

\* entries.size, the total onProgress is called with
ProgressTotal == Len(ex_entries)

LoopEnds_queued(nxt, len) == nxt > Len(ex_entries)

\* iteratorResult.done && activePromises.length === 0
LoopEnds(nxt, len) == nxt > Len(ex_entries) /\ len = 0

\* one turn of the while (true) loop: fill the pool, then break or await the race
LoopFrom(activePromises, nxt, state, createdDirs) ==
    LET m == FillCount(Len(activePromises), nxt)
        active == activePromises \o [k \in 1..m |-> nxt + k - 1]
    IN /\ ex_active' = active
       /\ ex_next' = nxt + m
       /\ ex_state' = [i \in Entries |->
              IF i >= nxt /\ i < nxt + m THEN StartPhaseIn(i, createdDirs) ELSE state[i]]
       /\ ex_pc' = IF LoopEnds(nxt + m, Len(active)) THEN "resolved" ELSE "racing"

\* a turn of the loop of the running call
LoopBody == LoopFrom(ex_active, ex_next, ex_state, ex_createdDirs)

\* extract(buffer, outputDir, onProgress, entries) is called
ExtractCall ==
    /\ ex_pc = "idle"
    /\ ex_progress' = <<[done |-> 0, total |-> ProgressTotal]>>
    /\ LoopBody
    /\ UNCHANGED <<ex_entries, ex_error, ex_current, ex_createdDirs, ex_dirs, ex_files>>
    /\ UNCHANGED <<ex_data, ex_run, ex_first, ex_mkdir>>
    /\ UNCHANGED <<dlVars, dirVars, toolVars>>

\* the main loop resumes after await Promise.race(activePromises)
Resume ==
    /\ ex_pc = "woken"
    /\ LoopBody
    /\ UNCHANGED <<ex_entries, ex_error, ex_current, ex_progress, ex_createdDirs,
                   ex_dirs, ex_files>>
    /\ UNCHANGED <<ex_data, ex_run, ex_first, ex_mkdir>>
    /\ UNCHANGED <<dlVars, dirVars, toolVars>>

NextCount_stuck(c) == c

\* current++
NextCount(c) == c + 1

\* processEntry after extractEntry settled with err: the catch logs the error,
\* the finally block counts the entry and reports progress
SettleEntry(i, err) ==
    /\ ex_error' = [ex_error EXCEPT ![i] = err]
    /\ ex_current' = NextCount(ex_current)
    /\ ex_progress' = Append(ex_progress,
                             [done |-> NextCount(ex_current), total |-> ProgressTotal])
    /\ IF err # "none" /\ ~CatchesEntryError
       THEN /\ ex_state' = [ex_state EXCEPT ![i] = "rejected"]
            /\ ex_pc' = IF ex_pc = "racing" THEN "rejected" ELSE ex_pc
       ELSE /\ ex_state' = [ex_state EXCEPT ![i] = "settled"]
            /\ UNCHANGED ex_pc

\* Callbacks that are queued as microtasks: they all run before the next
\* completion of a file system call is delivered
MicrotasksPending ==
    \/ ex_pc = "woken"
    \/ \E i \in Entries : ex_state[i] \in {"early", "settled"}

\* an entry that extractEntry rejected or returned from before any await;
\* these continuations run in the order the entries were started in
EarlyDone(i) ==
    /\ ex_state[i] = "early"
    /\ \A j \in Entries : j < i => ex_state[j] # "early"
    /\ SettleEntry(i, IF Unsafe(i) THEN "unsafe" ELSE "none")
    /\ UNCHANGED <<ex_entries, ex_next, ex_active, ex_createdDirs, ex_dirs, ex_files>>
    /\ UNCHANGED <<ex_data, ex_run, ex_first, ex_mkdir>>
    /\ UNCHANGED <<dlVars, dirVars, toolVars>>

AddDir_not(createdDirs, dir) == createdDirs

\* createdDirs?.add(parentDir)
AddDir(createdDirs, dir) == createdDirs \cup {dir}

\* after mkdir threw: stat(parentDir) can succeed with stats.isDirectory(),
\* the path being a directory. The empty path is the working directory, the
\* parent of outputDir, which is there
StatConfirms(dir) == dir = <<>> \/ dir \in ex_dirs

\* mkdir(parentDir, {recursive: true}) completes. Fulfilled (ok), which cannot
\* be when a file stands at the path or above it: the directory is recorded
\* in createdDirs and decompressEntry is called. Rejected: the catch block
\* calls stat(parentDir) and waits for it
MkdirDone(i, ok) ==
    /\ ex_state[i] = "mkdir"
    /\ ~MicrotasksPending
    /\ ok => Ancestors(ParentDir(i)) \cap ex_files = {}
    /\ ex_mkdir[i] = "made" => ok
    /\ IF ok
       THEN /\ ex_mkdir' = [ex_mkdir EXCEPT ![i] = "ok"]
            /\ ex_createdDirs' = AddDir(ex_createdDirs, ParentDir(i))
            /\ ex_dirs' = IF ex_mkdir[i] = "made" THEN ex_dirs
                          ELSE ex_dirs \cup Ancestors(ParentDir(i))
            /\ ex_state' = [ex_state EXCEPT ![i] = "inflate"]
       ELSE /\ ex_state' = [ex_state EXCEPT ![i] = "stat"]
            /\ UNCHANGED <<ex_mkdir, ex_createdDirs, ex_dirs>>
    /\ UNCHANGED <<ex_pc, ex_error, ex_current, ex_progress>>
    /\ UNCHANGED <<ex_entries, ex_next, ex_active, ex_files>>
    /\ UNCHANGED <<ex_data, ex_run, ex_first>>
    /\ UNCHANGED <<dlVars, dirVars, toolVars>>

\* stat(parentDir) settles, after mkdir was rejected. Fulfilled with a
\* directory (ok), which takes the directory to be there: it is recorded in
\* createdDirs and the entry goes on. Otherwise, stat being rejected (the path
\* is missing, or it cannot be reached: EACCES) or the path not being a
\* directory, the entry fails with the error of mkdir
StatDone(i, ok) ==
    /\ ex_state[i] = "stat"
    /\ ~MicrotasksPending
    /\ ok => StatConfirms(ParentDir(i))
    /\ IF ok
       THEN /\ ex_mkdir' = [ex_mkdir EXCEPT ![i] = "exists"]
            /\ ex_createdDirs' = AddDir(ex_createdDirs, ParentDir(i))
            /\ ex_state' = [ex_state EXCEPT ![i] = "inflate"]
            /\ UNCHANGED <<ex_pc, ex_error, ex_current, ex_progress>>
       ELSE /\ ex_mkdir' = [ex_mkdir EXCEPT ![i] = "fail"]
            /\ SettleEntry(i, "mkdir")
            /\ UNCHANGED ex_createdDirs
    /\ UNCHANGED <<ex_entries, ex_next, ex_active, ex_dirs, ex_files>>
    /\ UNCHANGED <<ex_data, ex_run, ex_first>>
    /\ UNCHANGED <<dlVars, dirVars, toolVars>>

\* the promise of decompressEntry settles: writeFile is called, or the entry fails
InflateDone(i) ==
    /\ ex_state[i] = "inflate"
    /\ IF DecompressError(ex_entries[i]) # "none"
       THEN SettleEntry(i, DecompressError(ex_entries[i]))
       ELSE /\ ex_state' = [ex_state EXCEPT ![i] = "write"]
            /\ UNCHANGED <<ex_pc, ex_error, ex_current, ex_progress>>
    /\ UNCHANGED <<ex_entries, ex_next, ex_active, ex_createdDirs, ex_dirs, ex_files>>
    /\ UNCHANGED <<ex_data, ex_run, ex_first, ex_mkdir>>
    /\ UNCHANGED <<dlVars, dirVars, toolVars>>

FileBlocksWrite_exclusive(path) == path \in ex_files

\* writeFile opens with flag 'w': a file that exists is replaced
FileBlocksWrite(path) == FALSE

\* the contents after writeFile(path, data): what was at the path is replaced
\* by the bytes of the entry, named by the entry they are decompressed from
WriteFile(data, path, entry) ==
    {d \in data : d[1] # path} \cup {<<path, entry>>}

\* what a file holds that was opened for writing, which empties it, and did
\* not get the bytes of the entry
NoBytes == Entry(<<>>, STORE, "empty")

\* what a file holds after a write that failed part of the way (EFBIG,
\* ENOSPC): the first bytes of the entry
FirstPart(entry) == Entry(entry.name, entry.method, "part")

WriteOutcomes == {"ok", "fail", "truncated", "partial"}

\* writeFile(path, data) can open the file: the path does not end in a
\* separator (EISDIR, or ENOTDIR on a file), the directory it lies in is
\* there and the path is not a directory. The path of an entry with an empty
\* name is outputDir itself, which lies in the working directory
CanOpen(path) ==
    /\ ~TrailingSeparator(path)
    /\ StatConfirms(dirname(path))
    /\ path \notin ex_dirs

\* the files after writeFile ended with outcome r: written (ok), not opened
\* (fail), or opened, which creates or empties the file, and not written
\* (truncated) or written in part (partial)
FilesAfter(files, path, r) == IF r = "fail" THEN files ELSE files \cup {path}

\* the contents after writeFile ended with outcome r
DataAfter(data, path, entry, r) ==
    IF r = "fail" THEN data
    ELSE WriteFile(data, path, IF r = "ok" THEN entry
                               ELSE IF r = "partial" THEN FirstPart(entry)
                               ELSE NoBytes)

\* writeFile(targetPath, decompressedData) completes
WriteDone(i, r) ==
    /\ ex_state[i] = "write"
    /\ ~MicrotasksPending
    /\ r # "fail" => CanOpen(TargetPath(i))
    /\ r = "partial" => ex_entries[i].data # "empty"
    /\ IF FileBlocksWrite(TargetPath(i))
       THEN /\ SettleEntry(i, "exists")
            /\ UNCHANGED <<ex_files, ex_data>>
       ELSE /\ ex_files' = FilesAfter(ex_files, TargetPath(i), r)
            /\ ex_data' = DataAfter(ex_data, TargetPath(i), ex_entries[i], r)
            /\ SettleEntry(i, IF r = "ok" THEN "none" ELSE "write")
    /\ UNCHANGED <<ex_entries, ex_next, ex_active, ex_createdDirs, ex_dirs>>
    /\ UNCHANGED <<ex_run, ex_first, ex_mkdir>>
    /\ UNCHANGED <<dlVars, dirVars, toolVars>>

\* the then callback of a settled entry removes its promise from the pool;
\* that resolves the promise the race is waiting for
RemoveFromPool(i) ==
    /\ ex_state[i] = "settled"
    /\ ex_state' = [ex_state EXCEPT ![i] = "removed"]
    /\ ex_active' = SelectSeq(ex_active, LAMBDA j : j # i)
    /\ ex_pc' = IF ex_pc = "racing" THEN "woken" ELSE ex_pc
    /\ UNCHANGED <<ex_entries, ex_next, ex_error, ex_current, ex_progress,
                   ex_createdDirs, ex_dirs, ex_files>>
    /\ UNCHANGED <<ex_data, ex_run, ex_first, ex_mkdir>>
    /\ UNCHANGED <<dlVars, dirVars, toolVars>>

\* before a second call is made
NothingLeft == [dirs |-> {}, files |-> {}, data |-> {}, error |-> <<>>]

\* extractAll is called again on the same archive and directory, after the
\* first call resolved: extract starts with a new createdDirs set, iterator,
\* pool and counter, the directory is as the first call left it
ExtractAgain ==
    /\ ex_pc = "resolved"
    /\ ex_run = 1
    /\ ex_run' = 2
    /\ ex_first' = [dirs |-> ex_dirs, files |-> ex_files, data |-> ex_data, error |-> ex_error]
    /\ ex_progress' = <<[done |-> 0, total |-> ProgressTotal]>>
    /\ LoopFrom(<<>>, 1, [i \in Entries |-> "queued"], {})
    /\ ex_error' = [i \in Entries |-> "none"]
    /\ ex_current' = 0
    /\ ex_createdDirs' = {}
    /\ ex_mkdir' = [i \in Entries |-> "none"]
    /\ UNCHANGED <<ex_entries, ex_dirs, ex_files, ex_data>>
    /\ UNCHANGED <<dlVars, dirVars, toolVars>>

InitExtract ==
    /\ ex_pc = "idle"
    /\ ex_next = 1
    /\ ex_active = <<>>
    /\ ex_state = [i \in Entries |-> "queued"]
    /\ ex_error = [i \in Entries |-> "none"]
    /\ ex_current = 0
    /\ ex_progress = <<>>
    /\ ex_createdDirs = {}
    /\ ex_dirs = {}
    /\ ex_files = {}
    /\ ex_data = {}
    /\ ex_run = 1
    /\ ex_first = NothingLeft
    /\ ex_mkdir = [i \in Entries |-> "none"]

(***************************************************************************)
(* An entry handle: createZipReader(...).getEntry(name)                    *)
(***************************************************************************)
\* bound: the calls made on one handle
MaxCalls == 3

NoEntry == Entry(<<>>, STORE, "empty")

HandleOps == {"getBuffer", "getText", "extractTo"}

CacheIsSet_never(cache) == FALSE

\* the negation of `!decompressedDataPromise`
CacheIsSet(cache) == cache # 0

Call(op, run, cached) ==
    [op |-> op, pc |-> "await", run |-> run, cached |-> cached, result |-> "none"]

\* getBuffer(), getText() or extractTo(directory) is called: each goes
\* through getDecompressedPromise() and then waits for the promise it got
HandleCall(op) ==
    /\ Len(h_calls) < MaxCalls
    /\ IF CacheIsSet(h_cache)
       THEN /\ h_calls' = Append(h_calls, Call(op, h_cache, TRUE))
            /\ UNCHANGED <<h_runs, h_cache>>
       ELSE /\ h_runs' = Append(h_runs, "pending")
            /\ h_cache' = Len(h_runs) + 1
            /\ h_calls' = Append(h_calls, Call(op, Len(h_runs) + 1, FALSE))
    /\ UNCHANGED <<h_entry, h_files>>
    /\ UNCHANGED <<dlVars, dirVars, exVars, sumVars, zipVars, rtVars, tbVars, jdkVars>>

\* the promise of a decompressEntry call settles
DecompressSettles(r) ==
    /\ r \in 1..Len(h_runs)
    /\ h_runs[r] = "pending"
    /\ h_runs' = [h_runs EXCEPT ![r] =
           IF DecompressError(h_entry) = "none" THEN "fulfilled" ELSE "rejected"]
    /\ UNCHANGED <<h_entry, h_cache, h_calls, h_files>>
    /\ UNCHANGED <<dlVars, dirVars, exVars, sumVars, zipVars, rtVars, tbVars, jdkVars>>

\* a call resumes with the outcome of the promise it waited for: getBuffer
\* and getText are through, extractTo goes on to writeFile
HandleResumes(c) ==
    /\ c \in 1..Len(h_calls)
    /\ h_calls[c].pc = "await"
    /\ h_runs[h_calls[c].run] # "pending"
    /\ h_calls' = [h_calls EXCEPT ![c] =
           IF h_runs[h_calls[c].run] = "rejected"
           THEN [@ EXCEPT !.pc = "done", !.result = "error"]
           ELSE IF @.op = "extractTo" THEN [@ EXCEPT !.pc = "write"]
           ELSE [@ EXCEPT !.pc = "done", !.result = "data"]]
    /\ UNCHANGED <<h_entry, h_runs, h_cache, h_files>>
    /\ UNCHANGED <<dlVars, dirVars, exVars, sumVars, zipVars, rtVars, tbVars, jdkVars>>

\* writeFile(join(directory, originalEntryData[0]), decompressed) completes
HandleWriteDone(c, r) ==
    /\ c \in 1..Len(h_calls)
    /\ h_calls[c].pc = "write"
    /\ r = "partial" => h_entry.data # "empty"
    /\ r # "fail" => ~TrailingSeparator(join(OutputDir, h_entry.name))
    /\ h_calls' = [h_calls EXCEPT ![c] =
           [@ EXCEPT !.pc = "done", !.result = IF r = "ok" THEN "data" ELSE "writeerror"]]
    /\ h_files' = FilesAfter(h_files, join(OutputDir, h_entry.name), r)
    /\ UNCHANGED <<h_entry, h_runs, h_cache>>
    /\ UNCHANGED <<dlVars, dirVars, exVars, sumVars, zipVars, rtVars, tbVars, jdkVars>>

InitHandle ==
    /\ h_runs = <<>>
    /\ h_cache = 0
    /\ h_calls = <<>>
    /\ h_files = {}

(***************************************************************************)
(* customCheckSum(hash, filename)                                          *)
(***************************************************************************)
\* bound: the length of a hash (40 characters for a real SHA-1 in hex)
HashLen == 2

\* the characters hashes are made of
HashChars == {"a", "A", "b", "B", "1"}

ToLowerChar(c) == IF c = "A" THEN "a" ELSE IF c = "B" THEN "b" ELSE c

\* String.prototype.toLowerCase
ToLower(str) == [k \in 1..Len(str) |-> ToLowerChar(str[k])]

\* the contents a file may have
Contents == {"c1", "c2"}

\* createHash('sha1').update(buffer).digest('hex'): lowercase hexadecimal
Sha1Hex(content) ==
    IF content = "c1" THEN [k \in 1..HashLen |-> IF k % 2 = 1 THEN "a" ELSE "1"]
    ELSE [k \in 1..HashLen |-> "b"]

HashEquals_nocase(hash, fileHash) == ToLower(hash) = ToLower(fileHash)

\* hash === fileHash
HashEquals(hash, fileHash) == hash = fileHash

CatchesReadError_not == FALSE

\* the try / catch around readFile and the hashing
CatchesReadError == TRUE

\* readFile(filename) can be fulfilled
Readable(file) == file \in Contents

\* customCheckSum(hash, filename) is called: readFile is issued
CallCustomCheckSum ==
    /\ sum_pc = "idle"
    /\ sum_pc' = "reading"
    /\ UNCHANGED <<sum_hash, sum_file, sum_file0, sum_result>>
    /\ UNCHANGED <<dlVars, dirVars, exVars, hVars, zipVars, rtVars, tbVars, jdkVars>>

\* readFile settles: the digest is compared, or the catch block emits
\* 'debug' and returns false
ReadFileSettles ==
    /\ sum_pc = "reading"
    /\ IF Readable(sum_file)
       THEN /\ sum_pc' = "resolved"
            /\ sum_result' = HashEquals(sum_hash, Sha1Hex(sum_file))
       ELSE IF CatchesReadError
            THEN /\ sum_pc' = "resolved"
                 /\ sum_result' = FALSE
            ELSE /\ sum_pc' = "rejected"
                 /\ UNCHANGED sum_result
    /\ UNCHANGED <<sum_hash, sum_file, sum_file0>>
    /\ UNCHANGED <<dlVars, dirVars, exVars, hVars, zipVars, rtVars, tbVars, jdkVars>>

InitSum ==
    /\ sum_file0 = sum_file
    /\ sum_pc = "idle"
    /\ sum_result = "none"

(***************************************************************************)
(* getEntriesFromCentralDirectory(buffer) and findEOCD(buffer). A buffer   *)
(* is a sequence of bytes; offset o of the code is index o + 1 here.       *)
(* 32-bit fields stay below 2^31 in every buffer of the model.             *)
(***************************************************************************)
MIN_LOCAL_HEADER_SIZE == 30

MIN_CDFH_SIZE == 46

EOCD_MIN_SIZE == 22

\* 0x02014b50
CENTRAL_DIR_HEADER == 33639248

\* 0x06054b50
EOCD_SIGNATURE == 101010256

\* 65535, the longest comment an EOCD record can declare
MaxCommentLen == 65535

Min(a, b) == IF a <= b THEN a ELSE b

\* bytes o .. o + n - 1 lie inside the buffer; Buffer reads throw a
\* RangeError otherwise
InBounds(buf, o, n) == o >= 0 /\ o + n <= Len(buf)

\* buffer.readUInt16LE(o)
ReadUInt16LE(buf, o) == buf[o + 1] + 256 * buf[o + 2]

\* the value every 32-bit field of 2^29 and more is read as
Beyond == 536870912

\* buffer.readUInt32LE(o).  The code compares a field it read, or a sum of
\* such fields, only with the two signatures (both below 2^29) and with
\* offsets inside the buffer, so a field of 2^29 and more is read as 2^29:
\* the comparisons come out as they do in the code for every buffer shorter
\* than that, and the sums stay inside the integers of the model.
ReadUInt32LE(buf, o) ==
    IF buf[o + 4] >= 32 THEN Beyond
    ELSE buf[o + 1] + 256 * buf[o + 2] + 65536 * buf[o + 3] + 16777216 * buf[o + 4]

\* buffer.subarray(from, to): both ends are clamped to the buffer
SubArray(buf, from, to) ==
    SubSeq(buf, Min(from, Len(buf)) + 1, Min(to, Len(buf)))

\* the character shown for a byte that is part of no UTF-8 sequence
ReplacementChar == 65533

\* the bytes that follow the first byte b of a UTF-8 sequence: how many they
\* are, and the range the first of them lies in. C0, C1 and F5..FF start no
\* sequence; E0 and F0 exclude overlong forms, ED the surrogates, F4 what
\* lies beyond U+10FFFF
Utf8Needed(b) ==
    IF b >= 194 /\ b <= 223 THEN 1
    ELSE IF b >= 224 /\ b <= 239 THEN 2
    ELSE IF b >= 240 /\ b <= 244 THEN 3
    ELSE 0

Utf8Lower(b) == IF b = 224 THEN 160 ELSE IF b = 240 THEN 144 ELSE 128

Utf8Upper(b) == IF b = 237 THEN 159 ELSE IF b = 244 THEN 143 ELSE 191

\* byte k + j is there and goes on the sequence that byte k starts
Utf8Continues(bytes, k, j) ==
    /\ k + j <= Len(bytes)
    /\ bytes[k + j] >= (IF j = 1 THEN Utf8Lower(bytes[k]) ELSE 128)
    /\ bytes[k + j] <= (IF j = 1 THEN Utf8Upper(bytes[k]) ELSE 191)

\* the code point of the sequence of 1 + need bytes at k
Utf8CodePoint(bytes, k, need) ==
    IF need = 1 THEN (bytes[k] - 192) * 64 + (bytes[k + 1] - 128)
    ELSE IF need = 2
         THEN (bytes[k] - 224) * 4096 + (bytes[k + 1] - 128) * 64 + (bytes[k + 2] - 128)
    ELSE (bytes[k] - 240) * 262144 + (bytes[k + 1] - 128) * 4096
             + (bytes[k + 2] - 128) * 64 + (bytes[k + 3] - 128)

RECURSIVE Utf8From(_, _)
\* the characters of bytes k, k + 1, ...: a byte below 128 is the character
\* of that code, a valid sequence of two to four bytes is its code point,
\* and every longest run of bytes that begins a sequence and does not
\* complete it, like every byte that begins none, becomes one U+FFFD
Utf8From(bytes, k) ==
    IF k > Len(bytes) THEN <<>>
    ELSE LET need == Utf8Needed(bytes[k])
             good == Cardinality({j \in 1..need :
                                     \A i \in 1..j : Utf8Continues(bytes, k, i)})
         IN IF bytes[k] < 128 THEN <<bytes[k]>> \o Utf8From(bytes, k + 1)
            ELSE IF need = 0 \/ good < need
                 THEN <<ReplacementChar>> \o Utf8From(bytes, k + good + 1)
            ELSE <<Utf8CodePoint(bytes, k, need)>> \o Utf8From(bytes, k + need + 1)

\* bytes.toString(): the bytes decoded as UTF-8, a name as its code points
ToStringUtf8(bytes) == Utf8From(bytes, 1)

\* a read of n bytes at offset o, as the byte range it covers
Read(o, n) == <<o, o + n>>

\* the lowest offset findEOCD looks at
ScanLowest(buf) == Len(buf) - Min(Len(buf), MaxCommentLen + EOCD_MIN_SIZE)

\* the offset findEOCD starts at
ScanStart(buf) == Len(buf) - EOCD_MIN_SIZE

\* findEOCD: the highest offset in the scanned range that holds the
\* signature, -1 when there is none
findEOCD(buf) ==
    LET hits == {o \in ScanLowest(buf)..ScanStart(buf) :
                    ReadUInt32LE(buf, o) = EOCD_SIGNATURE}
    IN IF hits = {} THEN -1 ELSE CHOOSE o \in hits : \A x \in hits : x <= o

\* the bytes findEOCD read before it returned r
ScanReads(buf, r) ==
    IF ScanStart(buf) < ScanLowest(buf) THEN {}
    ELSE {<<IF r = -1 THEN ScanLowest(buf) ELSE r, ScanStart(buf) + 4>>}

DirectoryFits_always(centralDirOffset, centralDirSize, eocdOffset) == TRUE

\* the negation of `centralDirOffset + centralDirSize > eocdOffset`
DirectoryFits(centralDirOffset, centralDirSize, eocdOffset) ==
    centralDirOffset + centralDirSize <= eocdOffset

\* an index entry: the ZipEntry tuple, with the offset its rawData view starts at
IndexEntry(name, method, raw, start) ==
    [name |-> name, method |-> method, raw |-> raw, start |-> start]

\* entries.set(entryName, ...): a Map keeps the place of a key that is set again
MapSet(entries, e) ==
    IF \E k \in 1..Len(entries) : entries[k].name = e.name
    THEN [k \in 1..Len(entries) |-> IF entries[k].name = e.name THEN e ELSE entries[k]]
    ELSE Append(entries, e)

\* the state of the parse loop
ParseState(entries, warnings, reads, error) ==
    [entries |-> entries, warnings |-> warnings, reads |-> reads, error |-> error]

LfhExtraFieldLength_central(buf, currentOffset, localHeaderOffset) ==
    ReadUInt16LE(buf, currentOffset + 30)

\* lfhExtraFieldLength
LfhExtraFieldLength(buf, currentOffset, localHeaderOffset) ==
    ReadUInt16LE(buf, localHeaderOffset + 28)

DataFits_always(dataEndOffset, buf) == TRUE

\* the negation of `dataEndOffset > buffer.length`
DataFits(dataEndOffset, buf) == dataEndOffset <= Len(buf)

LocalHeaderFits_always(localHeaderOffset, buf) == TRUE

\* the negation of `localHeaderOffset + MIN_LOCAL_HEADER_SIZE > buffer.length`
LocalHeaderFits(localHeaderOffset, buf) ==
    localHeaderOffset + MIN_LOCAL_HEADER_SIZE <= Len(buf)

RECURSIVE ParseHeaders(_, _, _, _, _, _)
\* the for loop over the central directory: header i at currentOffset
ParseHeaders(buf, entryCount, centralDirEnd, i, currentOffset, st) ==
    IF ~(i < entryCount /\ currentOffset < centralDirEnd) THEN st
    ELSE IF ~InBounds(buf, currentOffset, 4)
    THEN [st EXCEPT !.error = "range", !.reads = @ \cup {Read(currentOffset, 4)}]
    ELSE LET st1 == [st EXCEPT !.reads = @ \cup {Read(currentOffset, 4)}]
    IN IF ReadUInt32LE(buf, currentOffset) # CENTRAL_DIR_HEADER
    THEN [st1 EXCEPT !.warnings = Append(@, "signature")]
    ELSE IF currentOffset + MIN_CDFH_SIZE > centralDirEnd
    THEN [st1 EXCEPT !.warnings = Append(@, "incomplete")]
    ELSE IF ~InBounds(buf, currentOffset, MIN_CDFH_SIZE)
    THEN [st1 EXCEPT !.error = "range", !.reads = @ \cup {Read(currentOffset + 10, 36)}]
    ELSE LET compressionType == ReadUInt16LE(buf, currentOffset + 10)
             compressedSize == ReadUInt32LE(buf, currentOffset + 20)
             fileNameLength == ReadUInt16LE(buf, currentOffset + 28)
             extraFieldLength == ReadUInt16LE(buf, currentOffset + 30)
             fileCommentLength == ReadUInt16LE(buf, currentOffset + 32)
             localHeaderOffset == ReadUInt32LE(buf, currentOffset + 42)
             cdfhHeaderEnd == currentOffset + MIN_CDFH_SIZE
             fileNameEnd == cdfhHeaderEnd + fileNameLength
             extraFieldEnd == fileNameEnd + extraFieldLength
             fileCommentEnd == extraFieldEnd + fileCommentLength
             st2 == [st1 EXCEPT !.reads = @ \cup {Read(currentOffset + 10, 36)}]
    IN IF fileCommentEnd > centralDirEnd
    THEN [st2 EXCEPT !.warnings = Append(@, "lengths")]
    ELSE LET entryName == ToStringUtf8(SubArray(buf, cdfhHeaderEnd, fileNameEnd))
             st3 == [st2 EXCEPT !.reads = @ \cup {<<cdfhHeaderEnd, fileNameEnd>>}]
    IN IF ~LocalHeaderFits(localHeaderOffset, buf)
    THEN ParseHeaders(buf, entryCount, centralDirEnd, i + 1, fileCommentEnd,
                      [st3 EXCEPT !.warnings = Append(@, "localheader")])
    ELSE IF ~InBounds(buf, localHeaderOffset + 26, 4)
    THEN [st3 EXCEPT !.error = "range", !.reads = @ \cup {Read(localHeaderOffset + 26, 4)}]
    ELSE LET lfhFileNameLength == ReadUInt16LE(buf, localHeaderOffset + 26)
             lfhExtraFieldLength == LfhExtraFieldLength(buf, currentOffset, localHeaderOffset)
             dataStartOffset == localHeaderOffset + MIN_LOCAL_HEADER_SIZE
                                + lfhFileNameLength + lfhExtraFieldLength
             dataEndOffset == dataStartOffset + compressedSize
             st4 == [st3 EXCEPT !.reads = @ \cup {Read(localHeaderOffset + 26, 4)}]
    IN IF ~DataFits(dataEndOffset, buf)
    THEN ParseHeaders(buf, entryCount, centralDirEnd, i + 1, fileCommentEnd,
                      [st4 EXCEPT !.warnings = Append(@, "data")])
    ELSE ParseHeaders(buf, entryCount, centralDirEnd, i + 1, fileCommentEnd,
             [st4 EXCEPT
                 !.entries = MapSet(@, IndexEntry(entryName, compressionType,
                                 SubArray(buf, dataStartOffset, dataEndOffset),
                                 dataStartOffset)),
                 !.reads = @ \cup {<<Min(dataStartOffset, Len(buf)), Min(dataEndOffset, Len(buf))>>}])

\* the outcome of a call: thrown (error says why) or returned (entries)
ParseResult(status, error, declared, st) ==
    [status |-> status, error |-> error, declared |-> declared,
     entries |-> st.entries, warnings |-> st.warnings, reads |-> st.reads]

\* before the call
NotCalled == ParseResult("none", "none", 0, ParseState(<<>>, <<>>, {}, "none"))

\* getEntriesFromCentralDirectory(buffer)
getEntriesFromCentralDirectory(buf) ==
    LET eocdOffset == findEOCD(buf)
        scan == ParseState(<<>>, <<>>, ScanReads(buf, eocdOffset), "none")
    IN IF eocdOffset = -1 THEN ParseResult("thrown", "eocd", 0, scan)
       ELSE LET entryCount == ReadUInt16LE(buf, eocdOffset + 10)
                centralDirSize == ReadUInt32LE(buf, eocdOffset + 12)
                centralDirOffset == ReadUInt32LE(buf, eocdOffset + 16)
                st0 == [scan EXCEPT !.reads = @ \cup {Read(eocdOffset + 10, 10)}]
            IN IF ~DirectoryFits(centralDirOffset, centralDirSize, eocdOffset)
               THEN ParseResult("thrown", "corrupt", entryCount, [st0 EXCEPT !.error = "corrupt"])
               ELSE LET st == ParseHeaders(buf, entryCount, centralDirOffset + centralDirSize,
                                           0, centralDirOffset, st0)
                    IN IF st.error # "none"
                       THEN ParseResult("thrown", st.error, entryCount, st)
                       ELSE ParseResult("returned", "none", entryCount,
                                [st EXCEPT !.warnings =
                                    IF Len(st.entries) # entryCount
                                    THEN Append(@, "count") ELSE @])

(***************************************************************************)
(* Archives as a ZIP writer lays them out, and ways of damaging them       *)
(***************************************************************************)
\* a 16-bit and a 32-bit field, little-endian
U16(n) == <<n % 256, n \div 256>>

U32(n) == <<n % 256, (n \div 256) % 256, (n \div 65536) % 256, n \div 16777216>>

\* raw deflate of data as one final stored block: 01, LEN, NLEN, the bytes
Deflate(data) == <<1>> \o U16(Len(data)) \o U16(65535 - Len(data)) \o data

(***************************************************************************)
(* inflateRaw(rawData, callback) of node:zlib: a raw DEFLATE stream (RFC    *)
(* 1951) is decoded block by block, stored, with the fixed Huffman codes    *)
(* or with codes the block describes. A stream is a sequence of bytes, its  *)
(* bits numbered from 0, each byte from its lowest bit. What follows the    *)
(* final block is not read.                                                *)
(***************************************************************************)
\* bit p of the stream
BitAt(raw, p) == (raw[(p \div 8) + 1] \div (2 ^ (p % 8))) % 2

RECURSIVE BitsAt(_, _, _)
\* the number in the n bits from bit p, lowest bit first
BitsAt(raw, p, n) == IF n = 0 THEN 0 ELSE BitAt(raw, p) + 2 * BitsAt(raw, p + 1, n - 1)

\* the stream holds n bits from bit p; it ends too early otherwise
HasBits(raw, p, n) == p + n <= 8 * Len(raw)

\* the longest code
MAXBITS == 15

\* a step of the decoder that failed
Invalid == [ok |-> FALSE, sym |-> 0, p |-> 0, out |-> <<>>]

\* the symbols a code gives len bits to; lens is the code, the bit length
\* of every symbol, 0 for a symbol that is not used
CodedWith(lens, len) == {s \in DOMAIN lens : lens[s] = len}

RECURSIVE CodesLeft(_, _)
\* the codes of len bits that the lengths up to len leave unused: below 0
\* the lengths are over-subscribed, above 0 at 15 bits the set is incomplete
CodesLeft(lens, len) ==
    IF len = 0 THEN 1
    ELSE 2 * CodesLeft(lens, len - 1) - Cardinality(CodedWith(lens, len))

\* inflate_table accepts the lengths: a complete set; or, but for the code
\* of the code lengths, a single code of one bit or no code at all
TableOk(lens, type) ==
    LET used == {lens[s] : s \in DOMAIN lens} \ {0}
    IN IF used = {} THEN type # "codes"
       ELSE \/ CodesLeft(lens, MAXBITS) = 0
            \/ CodesLeft(lens, MAXBITS) > 0 /\ type # "codes" /\ used = {1}

RECURSIVE DecodeFrom(_, _, _, _, _, _)
\* the symbol whose code starts at bit p: codes are canonical, the bits of a
\* code come highest first; `code` are the bits read so far and `first` the
\* first code of len bits. No code, or the stream ends: invalid
DecodeFrom(raw, p, lens, len, code, first) ==
    IF len > MAXBITS \/ ~HasBits(raw, p, 1) THEN Invalid
    ELSE LET c == code + BitAt(raw, p)
             with == CodedWith(lens, len)
         IN IF c - Cardinality(with) < first
            THEN [ok |-> TRUE,
                  sym |-> CHOOSE s \in with : Cardinality({t \in with : t < s}) = c - first,
                  p |-> p + 1, out |-> <<>>]
            ELSE DecodeFrom(raw, p + 1, lens, len + 1, 2 * c,
                            2 * (first + Cardinality(with)))

Decode(raw, p, lens) == DecodeFrom(raw, p, lens, 1, 0, 0)

\* base and extra bits of the length symbols 257..285
LengthBase ==
    <<3, 4, 5, 6, 7, 8, 9, 10, 11, 13, 15, 17, 19, 23, 27, 31, 35, 43, 51, 59,
      67, 83, 99, 115, 131, 163, 195, 227, 258>>

LengthExtra ==
    <<0, 0, 0, 0, 0, 0, 0, 0, 1, 1, 1, 1, 2, 2, 2, 2, 3, 3, 3, 3, 4, 4, 4, 4,
      5, 5, 5, 5, 0>>

\* base and extra bits of the distance symbols 0..29
DistBase ==
    <<1, 2, 3, 4, 5, 7, 9, 13, 17, 25, 33, 49, 65, 97, 129, 193, 257, 385, 513,
      769, 1025, 1537, 2049, 3073, 4097, 6145, 8193, 12289, 16385, 24577>>

DistExtra ==
    <<0, 0, 0, 0, 1, 1, 2, 2, 3, 3, 4, 4, 5, 5, 6, 6, 7, 7, 8, 8, 9, 9, 10, 10,
      11, 11, 12, 12, 13, 13>>

\* the fixed codes: literals and lengths 0..287, distances 0..31; the
\* symbols 286, 287 and the distances 30, 31 have codes and stand for nothing
FixedLitLen ==
    [s \in 0..287 |-> IF s <= 143 THEN 8 ELSE IF s <= 255 THEN 9
                       ELSE IF s <= 279 THEN 7 ELSE 8]

FixedDist == [s \in 0..31 |-> 5]

\* out with len bytes more, each the byte `distance` before it
CopyBack(out, distance, len) ==
    out \o [k \in 1..len |-> out[Len(out) - distance + 1 + ((k - 1) % distance)]]

RECURSIVE Codes(_, _, _, _, _)
\* the symbols of a block from bit p up to its end-of-block symbol, coded
\* with litlen and dist; out are the bytes of the stream so far
Codes(raw, p, litlen, dist, out) ==
    LET s == Decode(raw, p, litlen)
    IN IF ~s.ok \/ s.sym > 285 THEN Invalid
       ELSE IF s.sym < 256 THEN Codes(raw, s.p, litlen, dist, Append(out, s.sym))
       ELSE IF s.sym = 256 THEN [ok |-> TRUE, sym |-> 256, p |-> s.p, out |-> out]
       ELSE LET lbits == LengthExtra[s.sym - 256]
                d == Decode(raw, s.p + lbits, dist)
            IN IF ~HasBits(raw, s.p, lbits) \/ ~d.ok \/ d.sym > 29 THEN Invalid
               ELSE LET dbits == DistExtra[d.sym + 1]
                        len == LengthBase[s.sym - 256] + BitsAt(raw, s.p, lbits)
                    IN IF ~HasBits(raw, d.p, dbits) THEN Invalid
                       ELSE IF DistBase[d.sym + 1] + BitsAt(raw, d.p, dbits) > Len(out)
                            THEN Invalid
                       ELSE Codes(raw, d.p + dbits, litlen, dist,
                                  CopyBack(out, DistBase[d.sym + 1] + BitsAt(raw, d.p, dbits),
                                           len))

\* a stored block, its header bits read up to p: the rest of the byte is
\* skipped, LEN and its complement follow, then LEN bytes
StoredBlock(raw, p, out) ==
    LET q == ((p + 7) \div 8) * 8
        len == BitsAt(raw, q, 16)
    IN IF ~HasBits(raw, q, 32) THEN Invalid
       ELSE IF len + BitsAt(raw, q + 16, 16) # 65535 \/ ~HasBits(raw, q + 32, 8 * len)
            THEN Invalid
       ELSE [ok |-> TRUE, sym |-> 0, p |-> q + 32 + 8 * len,
             out |-> out \o SubSeq(raw, (q \div 8) + 5, (q \div 8) + 4 + len)]

\* the order the lengths of the code length code come in
CodeLengthOrder == <<16, 17, 18, 0, 8, 7, 9, 6, 10, 5, 11, 4, 12, 3, 13, 2, 14, 1, 15>>

RECURSIVE ReadLengths(_, _, _, _, _)
\* the code lengths of a dynamic block from bit p, coded with cl, `have`
\* read so far of `total`: 0..15 is a length, 16 repeats the length before
\* it 3..6 times, 17 and 18 give 3..10 and 11..138 zeros; a repeat with no
\* length before it or beyond the total is invalid
ReadLengths(raw, p, cl, have, total) ==
    IF Len(have) = total THEN [ok |-> TRUE, sym |-> 0, p |-> p, out |-> have]
    ELSE LET s == Decode(raw, p, cl)
             bits == IF s.sym = 16 THEN 2 ELSE IF s.sym = 17 THEN 3 ELSE 7
             copy == (IF s.sym = 18 THEN 11 ELSE 3) + BitsAt(raw, s.p, bits)
         IN IF ~s.ok THEN Invalid
            ELSE IF s.sym < 16 THEN ReadLengths(raw, s.p, cl, Append(have, s.sym), total)
            ELSE IF ~HasBits(raw, s.p, bits) \/ (s.sym = 16 /\ Len(have) = 0) THEN Invalid
            ELSE IF Len(have) + copy > total THEN Invalid
            ELSE ReadLengths(raw, s.p + bits, cl,
                             have \o [k \in 1..copy |->
                                         IF s.sym = 16 THEN have[Len(have)] ELSE 0],
                             total)

\* a block with codes of its own, its header bits read up to p: the counts
\* of literal/length, distance and code length codes, the code length code,
\* the lengths of the two codes, then the symbols
DynamicBlock(raw, p, out) ==
    IF ~HasBits(raw, p, 14) THEN Invalid
    ELSE LET nlen == BitsAt(raw, p, 5) + 257
             ndist == BitsAt(raw, p + 5, 5) + 1
             ncode == BitsAt(raw, p + 10, 4) + 4
             cl == [s \in 0..18 |->
                      LET at == CHOOSE k \in 1..19 : CodeLengthOrder[k] = s
                      IN IF at <= ncode THEN BitsAt(raw, p + 14 + 3 * (at - 1), 3) ELSE 0]
             lens == ReadLengths(raw, p + 14 + 3 * ncode, cl, <<>>, nlen + ndist)
             litlen == [s \in 0..(nlen - 1) |-> lens.out[s + 1]]
             dist == [s \in 0..(ndist - 1) |-> lens.out[nlen + s + 1]]
         IN IF nlen > 286 \/ ndist > 30 \/ ~HasBits(raw, p + 14, 3 * ncode) THEN Invalid
            ELSE IF ~TableOk(cl, "codes") \/ ~lens.ok THEN Invalid
            ELSE IF litlen[256] = 0 \/ ~TableOk(litlen, "lens") \/ ~TableOk(dist, "dists")
                 THEN Invalid
            ELSE Codes(raw, lens.p, litlen, dist, out)

RECURSIVE Blocks(_, _, _)
\* the blocks from bit p on, up to the one marked final: a bit for final,
\* two for the type (0 stored, 1 fixed codes, 2 dynamic codes, 3 invalid)
Blocks(raw, p, out) ==
    IF ~HasBits(raw, p, 3) THEN Invalid
    ELSE LET type == BitsAt(raw, p + 1, 2)
             block == IF type = 0 THEN StoredBlock(raw, p + 3, out)
                      ELSE IF type = 1 THEN Codes(raw, p + 3, FixedLitLen, FixedDist, out)
                      ELSE IF type = 2 THEN DynamicBlock(raw, p + 3, out)
                      ELSE Invalid
         IN IF ~block.ok \/ BitAt(raw, p) = 1 THEN block
            ELSE Blocks(raw, block.p, block.out)

\* inflateRaw(raw): the bytes of the stream, or an error
Inflate(raw) ==
    LET end == Blocks(raw, 0, <<>>)
    IN IF end.ok THEN [ok |-> TRUE, data |-> end.out] ELSE [ok |-> FALSE, data |-> <<>>]

IsEmptyPayload_never(raw) == FALSE

\* rawData.length === 0
IsEmptyPayload(raw) == Len(raw) = 0

\* decompressEntry on an index entry
decompressEntry(e) ==
    IF e.method = STORE THEN [ok |-> TRUE, data |-> e.raw]
    ELSE IF e.method = DEFLATE
         THEN IF IsEmptyPayload(e.raw) THEN [ok |-> TRUE, data |-> <<>>] ELSE Inflate(e.raw)
    ELSE [ok |-> FALSE, data |-> <<>>]

\* decompressEntry calls inflateRaw for the entry
InflateCalled(e) == e.method = DEFLATE /\ ~IsEmptyPayload(e.raw)

\* before decompressEntry was called
NotDecompressed == [done |-> FALSE, results |-> <<>>]

\* a file to put in an archive: name are the characters of its name (code
\* points), data its bytes, lextra and cextra the extra fields of its local
\* and its central header; the writer encodes the name as UTF-8 and deflates
\* the data as one stored block
File(name, method, data, lextra, cextra) ==
    [name |-> name, method |-> method, data |-> data, lextra |-> lextra,
     cextra |-> cextra, charset |-> "utf8", stream |-> Deflate(data)]

\* the file f as a writer makes it that encodes names in charset (utf8, or
\* cp437, the encoding of ZIP names when general purpose bit 11 is not set)
\* and whose deflate gives stream for the data
Written(f, charset, stream) == [f EXCEPT !.charset = charset, !.stream = stream]

\* the UTF-8 bytes of a code point
Utf8Bytes(c) ==
    IF c < 128 THEN <<c>>
    ELSE IF c < 2048 THEN <<192 + (c \div 64), 128 + (c % 64)>>
    ELSE IF c < 65536
         THEN <<224 + (c \div 4096), 128 + ((c \div 64) % 64), 128 + (c % 64)>>
    ELSE <<240 + (c \div 262144), 128 + ((c \div 4096) % 64),
           128 + ((c \div 64) % 64), 128 + (c % 64)>>

\* the code page 437 byte of a character: ASCII as it is, C-cedilla 128,
\* u-umlaut 129, e-acute 130; "?" for a character the page does not have
Cp437Byte(c) ==
    IF c < 128 THEN c
    ELSE IF c = 199 THEN 128 ELSE IF c = 252 THEN 129 ELSE IF c = 233 THEN 130 ELSE 63

RECURSIVE NameFrom(_, _)
\* the bytes of the characters k, k + 1, ... of the name of f
NameFrom(f, k) ==
    IF k > Len(f.name) THEN <<>>
    ELSE (IF f.charset = "utf8" THEN Utf8Bytes(f.name[k]) ELSE <<Cp437Byte(f.name[k])>>)
             \o NameFrom(f, k + 1)

\* the file name field of the headers of f
NameBytes(f) == NameFrom(f, 1)

\* the general purpose bit flag: bit 11 says that the name is UTF-8
Flags(f) ==
    IF f.charset = "utf8" /\ \E k \in 1..Len(f.name) : f.name[k] >= 128 THEN 2048 ELSE 0

\* the bytes stored for a file
Compressed(f) == IF f.method = DEFLATE THEN f.stream ELSE f.data

\* local file header and data
LocalRecord(f) ==
    <<80, 75, 3, 4>> \o U16(20) \o U16(Flags(f)) \o U16(f.method) \o U16(0) \o U16(0)
    \o U32(0) \o U32(Len(Compressed(f))) \o U32(Len(f.data))
    \o U16(Len(NameBytes(f))) \o U16(Len(f.lextra)) \o NameBytes(f) \o f.lextra
    \o Compressed(f)

\* central directory file header
CentralRecord(f, localHeaderOffset) ==
    U32(CENTRAL_DIR_HEADER) \o U16(20) \o U16(20) \o U16(Flags(f)) \o U16(f.method)
    \o U16(0) \o U16(0) \o U32(0) \o U32(Len(Compressed(f))) \o U32(Len(f.data))
    \o U16(Len(NameBytes(f))) \o U16(Len(f.cextra)) \o U16(0) \o U16(0) \o U16(0)
    \o U32(0) \o U32(localHeaderOffset) \o NameBytes(f) \o f.cextra

RECURSIVE LocalPart(_, _)
\* the local records of files k, k + 1, ...
LocalPart(files, k) ==
    IF k > Len(files) THEN <<>> ELSE LocalRecord(files[k]) \o LocalPart(files, k + 1)

\* the offset of the local header of file k
LocalOffset(files, k) == Len(LocalPart(files, 1)) - Len(LocalPart(files, k))

RECURSIVE CentralPart(_, _)
CentralPart(files, k) ==
    IF k > Len(files) THEN <<>>
    ELSE CentralRecord(files[k], LocalOffset(files, k)) \o CentralPart(files, k + 1)

\* the offset of the central header of file k
CentralOffset(files, k) ==
    Len(LocalPart(files, 1)) + Len(CentralPart(files, 1)) - Len(CentralPart(files, k))

\* the archive: local records, central directory, EOCD record with comment
ZipWrite(files, comment) ==
    LocalPart(files, 1) \o CentralPart(files, 1)
    \o U32(EOCD_SIGNATURE) \o U16(0) \o U16(0) \o U16(Len(files)) \o U16(Len(files))
    \o U32(Len(CentralPart(files, 1))) \o U32(Len(LocalPart(files, 1)))
    \o U16(Len(comment)) \o comment

\* buf with the bytes at offset o replaced by `bytes`
Poke(buf, o, bytes) ==
    SubSeq(buf, 1, o) \o bytes \o SubSeq(buf, o + Len(bytes) + 1, Len(buf))

\* a buffer to parse: the files written, the EOCD comment, and the damage
\* done afterwards (kind, place, value)
Case(files, comment, damage, at, value) ==
    [files |-> files, comment |-> comment, damage |-> damage, at |-> at, value |-> value]

NoCase == Case(<<>>, <<>>, "none", 0, 0)

\* a value too large for any offset or size in the archives of the model
FarAway == 1000000

\* the buffer of a case
CaseBuffer(c) ==
    LET zip == ZipWrite(c.files, c.comment)
    IN IF c.damage = "byte" THEN Poke(zip, c.at, <<c.value>>)
       ELSE IF c.damage = "truncate" THEN SubSeq(zip, 1, c.at)
       ELSE IF c.damage = "append" THEN zip \o [k \in 1..c.value |-> 0]
       ELSE IF c.damage = "comment"
            THEN Poke(zip \o [k \in 1..c.value |-> 0], Len(zip) - Len(c.comment) - 2, U16(c.value))
       ELSE IF c.damage = "signature" THEN Poke(zip, CentralOffset(c.files, c.at), <<0>>)
       ELSE IF c.damage = "localheader"
            THEN Poke(zip, CentralOffset(c.files, c.at) + 42, U32(FarAway))
       ELSE IF c.damage = "data"
            THEN Poke(zip, CentralOffset(c.files, c.at) + 20, U32(FarAway))
       ELSE IF c.damage = "method"
            THEN Poke(zip, CentralOffset(c.files, c.at) + 10, U16(c.value))
       ELSE IF c.damage = "directory"
            THEN Poke(zip, Len(zip) - Len(c.comment) - 10, U32(FarAway))
       ELSE zip

\* the call is made
ParseIndex ==
    /\ zip_result = NotCalled
    /\ zip_result' = getEntriesFromCentralDirectory(zip_buffer)
    /\ UNCHANGED <<zip_case, zip_buffer, zip_out>>
    /\ UNCHANGED <<dlVars, dirVars, exVars, hVars, sumVars, rtVars, tbVars, jdkVars>>

\* decompressEntry is called on every entry of the index, as extract does
DecompressEntries ==
    /\ zip_result.status = "returned"
    /\ zip_out = NotDecompressed
    /\ zip_out' = [done |-> TRUE,
                    results |-> [k \in 1..Len(zip_result.entries) |->
                        [ok |-> decompressEntry(zip_result.entries[k]).ok,
                         data |-> decompressEntry(zip_result.entries[k]).data,
                         inflate |-> InflateCalled(zip_result.entries[k])]]]
    /\ UNCHANGED <<zip_case, zip_buffer, zip_result>>
    /\ UNCHANGED <<dlVars, dirVars, exVars, hVars, sumVars, rtVars, tbVars, jdkVars>>

InitZip == zip_result = NotCalled /\ zip_out = NotDecompressed

(***************************************************************************)
(* withRetry(operation, retries, delay) (retry.ts)                         *)
(***************************************************************************)
\* bound: the largest retries argument a call is made with
MaxRetries == 4

\* the delay arguments a call is made with, in milliseconds
Delays == {0, 1, 1000}

NotSettled == [kind |-> "none", call |-> 0]

\* operation() is called
Invoke(calls) == Append(calls, "pending")

\* retries - 1
FewerRetries(n) == n - 1

LongerDelay_same(d) == d

\* delay * 2
LongerDelay(d) == d * 2

\* withRetry(operation, retries, delay) is called: operation() is called in
\* the try block
CallWithRetry(retries, delay) ==
    /\ rt_pc = "idle"
    /\ rt_args' = [retries |-> retries, delay |-> delay]
    /\ rt_retries' = retries
    /\ rt_delay' = delay
    /\ rt_calls' = Invoke(rt_calls)
    /\ rt_pc' = "operation"
    /\ UNCHANGED <<rt_waits, rt_result>>
    /\ UNCHANGED <<dlVars, dirVars, exVars, hVars, sumVars, zipVars, tbVars, jdkVars>>

\* the promise of operation() is fulfilled: return await operation()
OperationResolves ==
    /\ rt_pc = "operation"
    /\ rt_calls' = [rt_calls EXCEPT ![Len(rt_calls)] = "resolved"]
    /\ rt_result' = [kind |-> "value", call |-> Len(rt_calls)]
    /\ rt_pc' = "returned"
    /\ UNCHANGED <<rt_args, rt_retries, rt_delay, rt_waits>>
    /\ UNCHANGED <<dlVars, dirVars, exVars, hVars, sumVars, zipVars, tbVars, jdkVars>>

\* the promise of operation() is rejected: the catch block sets the timer when
\* retries > 0, and throws the error otherwise
OperationRejects ==
    /\ rt_pc = "operation"
    /\ rt_calls' = [rt_calls EXCEPT ![Len(rt_calls)] = "rejected"]
    /\ IF rt_retries > 0
       THEN /\ rt_waits' = Append(rt_waits, rt_delay)
            /\ rt_pc' = "timer"
            /\ UNCHANGED rt_result
       ELSE /\ rt_result' = [kind |-> "error", call |-> Len(rt_calls)]
            /\ rt_pc' = "thrown"
            /\ UNCHANGED rt_waits
    /\ UNCHANGED <<rt_args, rt_retries, rt_delay>>
    /\ UNCHANGED <<dlVars, dirVars, exVars, hVars, sumVars, zipVars, tbVars, jdkVars>>

\* the timer fires: return withRetry(operation, retries - 1, delay * 2), which
\* calls operation() in its try block
TimerFires ==
    /\ rt_pc = "timer"
    /\ rt_retries' = FewerRetries(rt_retries)
    /\ rt_delay' = LongerDelay(rt_delay)
    /\ rt_calls' = Invoke(rt_calls)
    /\ rt_pc' = "operation"
    /\ UNCHANGED <<rt_args, rt_waits, rt_result>>
    /\ UNCHANGED <<dlVars, dirVars, exVars, hVars, sumVars, zipVars, tbVars, jdkVars>>

InitRetry ==
    /\ rt_pc = "idle"
    /\ rt_args = [retries |-> 0, delay |-> 0]
    /\ rt_retries = 0
    /\ rt_delay = 0
    /\ rt_calls = <<>>
    /\ rt_waits = <<>>
    /\ rt_result = NotSettled

(***************************************************************************)
(* Two downloadToDirectory batches that overlap                            *)
(***************************************************************************)
\* bound: the largest libraries.length of a batch
MaxLibraries == 3

Batches == {1, 2}

\* the events of a batch whose callbacks finish one after another, k of them,
\* from counter value c
Emitted(c, k, total) == [j \in 1..k |-> [task |-> Bump(c, j), total |-> total]]

\* downloadToDirectory is called with n libraries, none null or excluded by a
\* rule: libraries.map runs every callback up to its first await; w of them
\* wait for a download, the others count themselves at once
StartBatchOf(b, n, w) ==
    /\ tb_pc[b] = "idle"
    /\ tb_total' = [tb_total EXCEPT ![b] = n]
    /\ tb_left' = [tb_left EXCEPT ![b] = w]
    /\ counter' = Bump(counter, n - w)
    /\ tb_progress' = [tb_progress EXCEPT ![b] = Emitted(counter, n - w, n)]
    /\ tb_pc' = [tb_pc EXCEPT ![b] = "waiting"]
    /\ UNCHANGED <<libraries, lib_file0, dir_pc, lib_pc, lib_redo, progress, libs>>
    /\ UNCHANGED <<dlVars, exVars, hVars, sumVars, zipVars, rtVars, jdkVars>>

\* a callback of batch b resumes after its download: counter++; emit
\* 'progress'; libs.push
TaskOf(b) ==
    /\ tb_pc[b] = "waiting"
    /\ tb_left[b] > 0
    /\ tb_left' = [tb_left EXCEPT ![b] = @ - 1]
    /\ counter' = Bump(counter, 1)
    /\ tb_progress' = [tb_progress EXCEPT ![b] = @ \o Emitted(counter, 1, tb_total[b])]
    /\ UNCHANGED <<tb_total, tb_pc>>
    /\ UNCHANGED <<libraries, lib_file0, dir_pc, lib_pc, lib_redo, progress, libs>>
    /\ UNCHANGED <<dlVars, exVars, hVars, sumVars, zipVars, rtVars, jdkVars>>

\* Promise.all of batch b resolves: counter = 0; return libs
ReturnBatchOf(b) ==
    /\ tb_pc[b] = "waiting"
    /\ tb_left[b] = 0
    /\ counter' = 0
    /\ tb_pc' = [tb_pc EXCEPT ![b] = "returned"]
    /\ UNCHANGED <<tb_total, tb_left, tb_progress>>
    /\ UNCHANGED <<libraries, lib_file0, dir_pc, lib_pc, lib_redo, progress, libs>>
    /\ UNCHANGED <<dlVars, exVars, hVars, sumVars, zipVars, rtVars, jdkVars>>

InitBatches ==
    /\ tb_total = [b \in Batches |-> 0]
    /\ tb_pc = [b \in Batches |-> "idle"]
    /\ tb_left = [b \in Batches |-> 0]
    /\ tb_progress = [b \in Batches |-> <<>>]

(***************************************************************************)
(* installJDK(version, dir) (java.ts)                                      *)
(***************************************************************************)
\* installJDK extracts into javaDir, the output directory of the extraction;
\* the archive at downloadPath lies in javaDir too
NoLookup == [done |-> FALSE, folders |-> {}]

\* what can be at downloadPath: nothing, a ZIP archive, a file that is no
\* ZIP archive extract can read (cut short, a page the server sent), or a
\* directory, taken to be empty
ArchiveKinds == {"absent", "archive", "unreadable", "directory"}

\* what downloadAsync leaves at downloadPath when it returns: nothing after
\* failed attempts, or the body it was sent
DownloadResults == {"absent", "archive", "unreadable"}

\* downloadPath: join(javaDir, fileName)
DownloadPath == <<OutputDir, <<"j", "a", "v", "a", ".", "z", "i", "p">>>>

\* javaExecutable: join(javaDir, 'bin', 'java')
JavaExecutable == <<OutputDir, <<"b", "i", "n">>, <<"j", "a", "v", "a">>>>

\* the path p lies below the directory dir
Below(p, dir) == Len(p) > Len(dir) /\ SubSeq(p, 1, Len(dir)) = dir

\* where cpSync(jdkPath, javaDir) copies the path p of jdkPath to
CopyPath(p, jdkPath) ==
    SubSeq(jdkPath, 1, Len(jdkPath) - 1) \o SubSeq(p, Len(jdkPath) + 1, Len(p))

\* readdirSync(javaDir, {withFileTypes: true}), the entries that are directories
Folders(dirs) == {d \in dirs : Len(d) = 2 /\ d[1] = OutputDir}

\* the path p is the directory dir or lies below it
InFolder(p, dir) == p = dir \/ Below(p, dir)

RECURSIVE CopyTimes(_, _, _)
\* where the path p of the JDK folder is after n copies, each one level up,
\* for as long as the copy lands in the folder again: a folder that holds a
\* folder of its own name is copied into itself
CopyTimes(p, jdkPath, n) ==
    IF n = 0 \/ ~Below(p, jdkPath) THEN p
    ELSE CopyTimes(CopyPath(p, jdkPath), jdkPath, n - 1)

\* the places cpSync copies the path p of the JDK folder to: one level up,
\* and on from a place in the folder that cpSync reads after the copy landed
\* there (again); the order of the directory listing decides which those are
CopiesOf(p, jdkPath, again) ==
    {CopyTimes(p, jdkPath, n) :
        n \in {m \in 1..Len(p) :
                  \A k \in 1..(m - 1) : CopyTimes(p, jdkPath, k) \in again}}

\* the places in the JDK folder that copies can land on
Landings(jdkPath, dirs) ==
    {q \in UNION {{CopyTimes(p, jdkPath, n) : n \in 1..Len(p)} :
                     p \in {g \in ex_files \cup dirs : Below(g, jdkPath)}} :
        Below(q, jdkPath)}

\* `again` are places in the folder cpSync copied from after a copy landed
\* there: a copy did land there, and the directory it is copied into was
\* copied too
ListedAgain(again, jdkPath, dirs) ==
    \A q \in again :
        /\ \E p \in ex_files \cup dirs : Below(p, jdkPath) /\ q \in CopiesOf(p, jdkPath, again)
        /\ Below(dirname(q), jdkPath) => dirname(q) \in dirs \cup again

\* the files, of the copied files from, whose bytes a copy at the place t
\* can hold: the file copied there last. A file that came by way of a place in the folder was copied
\* after the file that lay at that place
Origins(t, from, jdkPath, again) ==
    LET all == {f \in from : t \in CopiesOf(f, jdkPath, again)}
        far == {f \in all : CopyPath(f, jdkPath) # t}
    IN IF far # {} THEN far ELSE all

\* what rmSync(jdkPath, {recursive: true, force: true}) can leave when it
\* throws ENOTEMPTY: a mkdir call extract started makes a directory in the
\* folder while the folder is being removed, and rmdir finds a directory
\* that is not empty. The folder is left with that directory and with what
\* was not removed yet; left is empty when rmSync returns
LeftBehind(left, racing, jdkPath, paths) ==
    left # {} =>
        /\ jdkPath \in left
        /\ left \subseteq {q \in paths \cup racing : InFolder(q, jdkPath)}
        /\ \A q \in left : q # jdkPath => dirname(q) \in left \ ex_files
        /\ \E q \in left \cap racing : Below(q, jdkPath)

\* cpSync(jdkPath, javaDir, {recursive: true}); rmSync(jdkPath, {recursive:
\* true, force: true}), on a tree with the directories dirs: what is below the
\* JDK folder is copied one level up, then the folder is removed with the
\* copies that landed in it, but for what rmSync left. win names the file
\* each copy holds the bytes of
Relocate(jdkPath, dirs, again, win, left) ==
    LET landF == UNION {CopiesOf(f, jdkPath, again) : f \in {g \in ex_files : Below(g, jdkPath)}}
        landD == UNION {CopiesOf(d, jdkPath, again) : d \in {g \in dirs : Below(g, jdkPath)}}
        kept(q) == ~InFolder(q, jdkPath) \/ q \in left
    IN /\ ex_files' = {f \in ex_files \cup landF : kept(f)}
       /\ ex_dirs' = {d \in dirs \cup landD \cup (left \ (ex_files \cup landF)) : kept(d)}
       /\ ex_data' = {d \in ex_data : kept(d[1]) /\ d[1] \notin landF}
                        \cup UNION {{<<t, d[2]>> : d \in {e \in ex_data : e[1] = win[t]}} :
                                       t \in {q \in landF : kept(q)}}

\* what cpSync(jdkPath, javaDir) cannot copy: a file whose target is a
\* directory, a directory whose target is a file; cpSync throws on it
CopyBlocked(jdkPath, dirs, again) ==
    {f \in ex_files : Below(f, jdkPath) /\ CopiesOf(f, jdkPath, again) \cap dirs # {}}
        \cup {d \in dirs : Below(d, jdkPath) /\ CopiesOf(d, jdkPath, again) \cap ex_files # {}}

\* what a cpSync that throws may have copied before: paths of the JDK folder
\* that are not blocked, each with the directories above it. The order cpSync
\* goes through a directory in is the order of the directory listing
CopiedBefore(part, jdkPath, dirs, again) ==
    /\ part \subseteq {q \in ex_files \cup dirs : Below(q, jdkPath)}
    /\ part \cap CopyBlocked(jdkPath, dirs, again) = {}
    /\ \A q \in part : Below(dirname(q), jdkPath) => dirname(q) \in part

\* cpSync(jdkPath, javaDir, {recursive: true}) throws after it copied part
CopyPart(part, jdkPath, dirs, again, win) ==
    LET landF == UNION {CopiesOf(f, jdkPath, again) : f \in part \cap ex_files}
        landD == UNION {CopiesOf(d, jdkPath, again) : d \in part \cap dirs}
    IN /\ ex_files' = ex_files \cup landF
       /\ ex_dirs' = dirs \cup landD
       /\ ex_data' = {d \in ex_data : d[1] \notin landF}
                        \cup UNION {{<<t, d[2]>> : d \in {e \in ex_data : e[1] = win[t]}} :
                                       t \in landF}

\* the directories readdirSync(javaDir, {withFileTypes: true}) lists, a
\* directory at downloadPath among them
Listed(dirs, archive) ==
    Folders(dirs) \cup (IF archive = "directory" THEN {DownloadPath} ELSE {})

\* the directories the mkdir calls of the entries in S make
MkdirTargets(S) == UNION {Ancestors(ParentDir(i)) : i \in S}

\* directories that mkdir calls in flight may have made so far: below a
\* directory that is there
MadeSoFar(seen) ==
    /\ seen \cap ex_dirs = {}
    /\ \A d \in seen : Len(d) > 1 => dirname(d) \in seen \cup ex_dirs

\* installJDK from the 'Extract JDK' comment to its end: extract is called
\* and its promise dropped, so what follows runs as soon as extract reaches
\* its first await, while the mkdir calls extract has started run on the
\* thread pool. The JDK folder is looked up among the directories that are
\* there by then (seen: the ones the running mkdir calls have made so far),
\* copied and removed, and the archive is deleted; a mkdir call that was
\* through before the folder was removed (made) will report a directory that
\* is gone. When cpSync throws, the catch block throws with the folder and
\* the archive left, and so it does when rmSync throws on the folder, a
\* mkdir call making a directory in it meanwhile. Without an archive extract
\* can read, readFileSync or getEntriesFromCentralDirectory throws inside
\* extract, whose promise is rejected with nobody waiting for it, and
\* installJDK goes on all the same. A directory at downloadPath is listed
\* with the folders: when it is the one looked up it is copied and removed,
\* otherwise the last rmSync throws on it
SetupJDK(archive) ==
    /\ IF archive = "archive"
       THEN /\ ex_progress' = <<[done |-> 0, total |-> ProgressTotal]>>
            /\ LoopBody
       ELSE /\ ex_pc' = "rejected"
            /\ UNCHANGED <<ex_progress, ex_active, ex_next, ex_state>>
    /\ LET started == {i \in Entries : ex_state'[i] = "mkdir"}
       IN \E seen \in SUBSET MkdirTargets(started) :
            /\ MadeSoFar(seen)
            /\ jdk_lookup' = [done |-> TRUE, folders |-> Listed(ex_dirs \cup seen, archive)]
            /\ IF Listed(ex_dirs \cup seen, archive) = {}
               THEN /\ jdk_pc' = "thrown"
                    /\ jdk_archive' = archive
                    /\ ex_dirs' = ex_dirs \cup seen
                    /\ UNCHANGED <<ex_files, ex_data, ex_mkdir>>
               ELSE \E jdkPath \in Listed(ex_dirs \cup seen, archive) :
                    IF jdkPath = DownloadPath
                    THEN /\ jdk_pc' = "returned"
                         /\ jdk_archive' = "absent"
                         /\ ex_dirs' = ex_dirs \cup seen
                         /\ UNCHANGED <<ex_files, ex_data, ex_mkdir>>
                    ELSE
                    \E again \in SUBSET Landings(jdkPath, ex_dirs \cup seen) :
                      /\ ListedAgain(again, jdkPath, ex_dirs \cup seen)
                      /\ LET dirs == ex_dirs \cup seen
                             inFolder == {i \in started : InFolder(ParentDir(i), jdkPath)}
                             files == {f \in ex_files : Below(f, jdkPath)}
                             landF == UNION {CopiesOf(f, jdkPath, again) : f \in files}
                             landD == UNION {CopiesOf(d, jdkPath, again) :
                                               d \in {g \in dirs : Below(g, jdkPath)}}
                         IN IF CopyBlocked(jdkPath, dirs, again) = {}
                            THEN \E made \in SUBSET inFolder,
                                    left \in SUBSET {q \in ex_files \cup dirs \cup landF \cup landD
                                                           \cup MkdirTargets(inFolder) :
                                                        InFolder(q, jdkPath)} :
                                   /\ LeftBehind(left, MkdirTargets(inFolder), jdkPath,
                                                 ex_files \cup dirs \cup landF \cup landD)
                                   /\ \E win \in [landF -> files] :
                                        /\ \A t \in landF :
                                              win[t] \in Origins(t, files, jdkPath, again)
                                        /\ Relocate(jdkPath, dirs, again, win, left)
                                   /\ ex_mkdir' = [i \in Entries |->
                                          IF i \in made THEN "made" ELSE ex_mkdir[i]]
                                   /\ jdk_archive' = IF left = {} /\ archive # "directory"
                                                     THEN "absent" ELSE archive
                                   /\ jdk_pc' = IF left = {} /\ archive # "directory"
                                                THEN "returned" ELSE "thrown"
                            ELSE \E part \in SUBSET (ex_files \cup dirs) :
                                   /\ CopiedBefore(part, jdkPath, dirs, again)
                                   /\ \E win \in [UNION {CopiesOf(f, jdkPath, again) :
                                                            f \in part \cap ex_files}
                                                   -> files] :
                                        /\ \A t \in DOMAIN win :
                                              win[t] \in Origins(t, part \cap files,
                                                                 jdkPath, again)
                                        /\ CopyPart(part, jdkPath, dirs, again, win)
                                   /\ jdk_archive' = archive
                                   /\ jdk_pc' = "thrown"
                                   /\ UNCHANGED ex_mkdir
    /\ UNCHANGED <<ex_entries, ex_error, ex_current, ex_createdDirs, ex_run, ex_first>>

\* existsSync(path) on the tree of javaDir: a file or a directory is there
PathExists(path) == path \in ex_files \cup ex_dirs

\* installJDK(version, dir) is called: an installation that exists is
\* returned, otherwise getJDKDownloadUrl is awaited
InstallJDK ==
    /\ jdk_pc = "idle"
    /\ jdk_pc' = IF PathExists(JavaExecutable) THEN "returned" ELSE "url"
    /\ UNCHANGED <<jdk_archive, jdk_lookup>>
    /\ UNCHANGED <<dlVars, dirVars, exVars, hVars, sumVars, zipVars, rtVars, tbVars>>

\* getJDKDownloadUrl settles: on an error the catch block throws; with the
\* url, the archive is downloaded unless it exists: downloadAsync is called,
\* which makes javaDir (mkdirSync) before its first await, or throws when
\* javaDir is a file, and then the catch block throws
UrlSettles(ok) ==
    /\ jdk_pc = "url"
    /\ IF ~ok \/ (jdk_archive = "absent" /\ <<OutputDir>> \in ex_files)
       THEN /\ jdk_pc' = "thrown"
            /\ UNCHANGED <<jdk_archive, jdk_lookup, exVars>>
       ELSE IF jdk_archive = "absent"
       THEN /\ jdk_pc' = "download"
            /\ ex_dirs' = ex_dirs \cup Ancestors(<<OutputDir>>)
            /\ UNCHANGED <<jdk_archive, jdk_lookup>>
            /\ UNCHANGED <<ex_entries, ex_pc, ex_next, ex_active, ex_state, ex_error,
                           ex_current, ex_progress, ex_createdDirs, ex_files, ex_data,
                           ex_run, ex_first, ex_mkdir>>
       ELSE SetupJDK(jdk_archive)
    /\ UNCHANGED <<dlVars, dirVars, hVars, sumVars, zipVars, rtVars, tbVars>>

\* downloadAsync(url, javaDir, fileName, true, 'java-download') returns, the
\* archive written, something else written or, after failed attempts, nothing
DownloadReturns(written) ==
    /\ jdk_pc = "download"
    /\ SetupJDK(written)
    /\ UNCHANGED <<dlVars, dirVars, hVars, sumVars, zipVars, rtVars, tbVars>>

\* the rejection of the promise extract returned is handled by nobody: once
\* installJDK is through, node ends the process
RejectionUnhandled ==
    /\ ex_pc = "rejected"
    /\ jdk_pc \in {"returned", "thrown"}
    /\ jdk_pc' = "crashed"
    /\ UNCHANGED <<jdk_archive, jdk_lookup>>
    /\ UNCHANGED <<dlVars, dirVars, exVars, hVars, sumVars, zipVars, rtVars, tbVars>>

InitJdk ==
    /\ jdk_pc = "idle"
    /\ jdk_archive = "absent"
    /\ jdk_lookup = NoLookup

\* the steps of a running downloadAsync call
DownloadStep(i) ==
    \/ \E s \in Statuses, way \in CatchWays : ResponseArrives(i, s, way)
    \/ \E way \in CatchWays : FetchRejects(i, way)
    \/ \E way \in CatchWays : Timeout(i, way)
    \/ LateTimeout(i)
    \/ StreamOpens(i)
    \/ OrphanOpens(i)
    \/ OrphanFails(i)
    \/ StreamError(i)
    \/ BodyEnds(i)
    \/ \E way \in CatchWays : ReadFails(i, way)
    \/ \E content \in {"good", "bad"} : Finished(i, content)

InitDownload ==
    /\ dl_pc = [i \in Tasks |-> "idle"]
    /\ dl_retry0 = [i \in Tasks |-> FALSE]
    /\ dl_retry = [i \in Tasks |-> FALSE]
    /\ dl_attempts = [i \in Tasks |-> 0]
    /\ dl_timer = [i \in Tasks |-> 0]
    /\ dl_stream = [i \in Tasks |-> "none"]
    /\ dl_orphan = [i \in Tasks |-> 0]
    /\ dl_last = [i \in Tasks |-> NoOutcome]
    /\ dl_completed = [i \in Tasks |-> 0]
    /\ lib_file0 = dl_file

(***************************************************************************)
(* SpecDL: one direct call of downloadAsync                                *)
(***************************************************************************)
\* downloadAsync is called; ok: mkdirSync(directory) does not throw. When it
\* throws a file stands where the directory should be, so none is at filePath
CallDownloadAsync(i, r, ok) ==
    /\ Alive
    /\ \A j \in Tasks : dl_pc[j] = "idle"
    /\ ~ok => dl_file[i] = "absent"
    /\ StartCall(IF ok THEN {i} ELSE {}, IF ok THEN {} ELSE {i}, r)
    /\ UNCHANGED <<dirVars, exVars, toolVars>>

InitDL ==
    /\ dl_file \in [Tasks -> {"absent", "good", "bad", "directory"}]
    /\ InitDownload
    /\ InitDirectory
    /\ libraries = <<>>
    /\ ex_entries = <<>>
    /\ InitExtract
    /\ h_entry = NoEntry
    /\ InitHandle
    /\ sum_hash = <<>>
    /\ sum_file = "missing"
    /\ InitSum
    /\ zip_case = NoCase
    /\ zip_buffer = <<>>
    /\ InitZip
    /\ InitRetry
    /\ InitBatches
    /\ InitJdk

NextDL ==
    \/ \E i \in Tasks, r, ok \in BOOLEAN : CallDownloadAsync(i, r, ok)
    \/ \E i \in Tasks : DownloadStep(i)

SpecDL == InitDL /\ [][NextDL]_vars

(***************************************************************************)
(* SpecDir: one downloadToDirectory batch                                  *)
(***************************************************************************)
InitDir ==
    /\ dl_file \in [Tasks -> {"absent", "good", "bad"}]
    /\ InitDownload
    /\ InitDirectory
    /\ libraries \in [Tasks -> LibraryKinds]
    /\ ex_entries = <<>>
    /\ InitExtract
    /\ h_entry = NoEntry
    /\ InitHandle
    /\ sum_hash = <<>>
    /\ sum_file = "missing"
    /\ InitSum
    /\ zip_case = NoCase
    /\ zip_buffer = <<>>
    /\ InitZip
    /\ InitRetry
    /\ InitBatches
    /\ InitJdk

NextDir ==
    \/ StartBatch
    \/ \E i \in Tasks : ContinueTask(i)
    \/ \E i \in Tasks : TaskRejects(i)
    \/ ReturnBatch
    \/ \E i \in Tasks : DownloadStep(i)

SpecDir == InitDir /\ [][NextDir]_vars

(***************************************************************************)
(* SpecEx: one extractAll call on an archive                               *)
(***************************************************************************)
\* the name "d...d/" of k letters: a directory marker
DirName(k) == [j \in 1..k |-> "d"] \o <<"/">>

\* the archives extract is run on: a stored file, a directory marker and a
\* deflated file beneath it; names that climb out of the output directory,
\* with slashes and with backslashes, a name with two dots inside a segment
\* and a plain file; entries that cannot be decompressed beside one that can;
\* and an archive of one entry more than the pool takes, directory markers
\* between two files; an entry with an empty name beside a plain file; a
\* file entry whose name ends in a backslash beside a plain file
Archives ==
    { <<Entry(<<>>, STORE, "valid"),
        Entry(<<"a">>, STORE, "valid")>>,
      <<Entry(<<"a", "\\">>, STORE, "valid"),
        Entry(<<"b">>, STORE, "valid")>>,
      <<Entry(<<"a">>, STORE, "valid"),
        Entry(<<"d", "/">>, STORE, "empty"),
        Entry(<<"d", "/", "b">>, DEFLATE, "valid")>>,
      <<Entry(<<".", ".", "/", "e">>, STORE, "valid"),
        Entry(<<"d", "\\", ".", ".", "\\", ".", ".", "\\", "e">>, DEFLATE, "valid"),
        Entry(<<"a", ".", ".", "b">>, STORE, "valid"),
        Entry(<<"a">>, STORE, "valid")>>,
      <<Entry(<<"a">>, 12, "valid"),
        Entry(<<"d", "/", "b">>, DEFLATE, "corrupt"),
        Entry(<<"c">>, DEFLATE, "empty")>>,
      [k \in 1..(CONCURRENCY_LIMIT + 1) |->
          IF k = 1 THEN Entry(<<"f">>, STORE, "valid")
          ELSE IF k = CONCURRENCY_LIMIT + 1 THEN Entry(<<"d", "/", "g">>, DEFLATE, "valid")
          ELSE Entry(DirName(k - 1), STORE, "empty")] }

InitEx ==
    /\ dl_file = [i \in Tasks |-> "absent"]
    /\ InitDownload
    /\ InitDirectory
    /\ libraries = <<>>
    /\ ex_entries \in Archives
    /\ InitExtract
    /\ h_entry = NoEntry
    /\ InitHandle
    /\ sum_hash = <<>>
    /\ sum_file = "missing"
    /\ InitSum
    /\ zip_case = NoCase
    /\ zip_buffer = <<>>
    /\ InitZip
    /\ InitRetry
    /\ InitBatches
    /\ InitJdk

ExtractStep ==
    \/ ExtractCall
    \/ Resume
    \/ \E i \in Entries : EarlyDone(i)
    \/ \E i \in Entries, ok \in BOOLEAN : MkdirDone(i, ok)
    \/ \E i \in Entries, ok \in BOOLEAN : StatDone(i, ok)
    \/ \E i \in Entries : InflateDone(i)
    \/ \E i \in Entries, r \in WriteOutcomes : WriteDone(i, r)
    \/ \E i \in Entries : RemoveFromPool(i)

NextEx == ExtractStep

SpecEx == InitEx /\ [][NextEx]_vars

\* the same call when every step that can be taken is taken in the end: the
\* event loop runs a callback that is ready, and every mkdir, inflate and
\* write that was started completes
SpecExFair == InitEx /\ [][NextEx]_vars /\ WF_vars(NextEx)

(***************************************************************************)
(* SpecRace: one extractAll call on archives whose entries share parents   *)
(***************************************************************************)
\* two files beneath the directory d that no entry names and a third
\* beneath d/e, all in flight at once; a file f, an entry f/g beneath the
\* path of that file, and a directory marker
RaceArchives ==
    { <<Entry(<<"d", "/", "a">>, STORE, "valid"),
        Entry(<<"d", "/", "b">>, DEFLATE, "valid"),
        Entry(<<"d", "/", "e", "/", "c">>, STORE, "valid")>>,
      <<Entry(<<"f">>, STORE, "valid"),
        Entry(<<"f", "/", "g">>, STORE, "valid"),
        Entry(<<"h", "/">>, STORE, "empty")>> }

InitRace ==
    /\ dl_file = [i \in Tasks |-> "absent"]
    /\ InitDownload
    /\ InitDirectory
    /\ libraries = <<>>
    /\ ex_entries \in RaceArchives
    /\ InitExtract
    /\ h_entry = NoEntry
    /\ InitHandle
    /\ sum_hash = <<>>
    /\ sum_file = "missing"
    /\ InitSum
    /\ zip_case = NoCase
    /\ zip_buffer = <<>>
    /\ InitZip
    /\ InitRetry
    /\ InitBatches
    /\ InitJdk

SpecRace == InitRace /\ [][NextEx]_vars

(***************************************************************************)
(* SpecTwice: extractAll called twice on the same archive and directory    *)
(***************************************************************************)
NextTwice == ExtractStep \/ ExtractAgain

SpecTwice == InitEx /\ [][NextTwice]_vars

(***************************************************************************)
(* SpecEntry: the calls made on one entry handle                           *)
(***************************************************************************)
\* the entries a handle is asked for
HandleEntries ==
    { Entry(<<"a">>, STORE, "valid"),
      Entry(<<"d", "/">>, STORE, "empty"),
      Entry(<<"d", "/", "b">>, DEFLATE, "valid"),
      Entry(<<"d", "/", "b">>, DEFLATE, "corrupt"),
      Entry(<<"c">>, DEFLATE, "empty"),
      Entry(<<"a">>, 12, "valid"),
      Entry(<<".", ".", "/", "e">>, STORE, "valid") }

InitEntry ==
    /\ dl_file = [i \in Tasks |-> "absent"]
    /\ InitDownload
    /\ InitDirectory
    /\ libraries = <<>>
    /\ ex_entries = <<>>
    /\ InitExtract
    /\ h_entry \in HandleEntries
    /\ InitHandle
    /\ sum_hash = <<>>
    /\ sum_file = "missing"
    /\ InitSum
    /\ zip_case = NoCase
    /\ zip_buffer = <<>>
    /\ InitZip
    /\ InitRetry
    /\ InitBatches
    /\ InitJdk

NextEntry ==
    \/ \E op \in HandleOps : HandleCall(op)
    \/ \E r \in 1..MaxCalls : DecompressSettles(r)
    \/ \E c \in 1..MaxCalls : HandleResumes(c)
    \/ \E c \in 1..MaxCalls, r \in WriteOutcomes : HandleWriteDone(c, r)

SpecEntry == InitEntry /\ [][NextEntry]_vars

(***************************************************************************)
(* SpecSum: one customCheckSum call                                        *)
(***************************************************************************)
InitSumCall ==
    /\ dl_file = [i \in Tasks |-> "absent"]
    /\ InitDownload
    /\ InitDirectory
    /\ libraries = <<>>
    /\ ex_entries = <<>>
    /\ InitExtract
    /\ h_entry = NoEntry
    /\ InitHandle
    /\ sum_hash \in [1..HashLen -> HashChars]
    /\ sum_file \in Contents \cup {"missing", "unreadable"}
    /\ InitSum
    /\ zip_case = NoCase
    /\ zip_buffer = <<>>
    /\ InitZip
    /\ InitRetry
    /\ InitBatches
    /\ InitJdk

NextSum ==
    \/ CallCustomCheckSum
    \/ ReadFileSettles

SpecSum == InitSumCall /\ [][NextSum]_vars

(***************************************************************************)
(* SpecZip: one getEntriesFromCentralDirectory call on a buffer            *)
(***************************************************************************)
\* the files archives are made of: "a" stored, "d/b" deflated with an extra
\* field in its local header only, "c" deflated and empty, the directory
\* marker "d/", "e" stored and empty with an extra field in its central header
\* only
FileA == File(<<97>>, STORE, <<1, 2, 3>>, <<>>, <<>>)

FileB == File(<<100, 47, 98>>, DEFLATE, <<7, 7>>, <<9, 9, 9, 9>>, <<>>)

FileC == File(<<99>>, DEFLATE, <<>>, <<>>, <<>>)

FileD == File(<<100, 47>>, STORE, <<>>, <<>>, <<>>)

FileE == File(<<101>>, STORE, <<>>, <<>>, <<8, 8>>)

FileLists ==
    { <<>>, <<FileA>>, <<FileA, FileB>>, <<FileB, FileA, FileC>>,
      <<FileA, FileD, FileB>>, <<FileE, FileB>> }

\* files as zlib 1.2.13 deflates them, with names beyond ASCII. The streams
\* are the raw deflate output of zlib for the data: at level 6, a block of
\* fixed codes with a literal and a match of seven bytes at distance one;
\* at level 9, a block of dynamic codes; at level 6 with a sync flush after
\* two bytes, a block of fixed codes, an empty stored block and a final
\* block of fixed codes; at level 0, a stored block; and for no data at all
\* a block of fixed codes that ends at once
FileF ==
    Written(File(<<233>>, DEFLATE, <<7, 7, 7, 7, 7, 7, 7, 7>>, <<>>, <<>>),
            "utf8", <<99, 103, 135, 0, 0>>)

FileG ==
    Written(File(<<20013, 47, 25991>>, DEFLATE,
                 <<0, 5, 6, 0, 0, 6, 5, 0, 5, 5, 0, 6, 6, 6, 5, 5, 5>>, <<>>, <<>>),
            "utf8",
            <<5, 193, 49, 1, 0, 0, 0, 194, 160, 61, 216, 63, 178, 144, 213, 68, 219, 112>>)

FileH ==
    Written(File(<<128512, 97>>, DEFLATE, <<1, 2, 3, 4>>, <<1, 1>>, <<>>),
            "utf8", <<98, 100, 2, 0, 0, 0, 255, 255, 99, 102, 1, 0>>)

FileI ==
    Written(File(<<102>>, DEFLATE, <<1, 2, 3>>, <<>>, <<>>),
            "cp437", <<1, 3, 0, 252, 255, 1, 2, 3>>)

FileJ == Written(File(<<103>>, DEFLATE, <<>>, <<>>, <<>>), "utf8", <<3, 0>>)

\* two files a writer names in code page 437, C-cedilla and u-umlaut
FileK == Written(File(<<199>>, STORE, <<1>>, <<>>, <<>>), "cp437", <<>>)

FileL == Written(File(<<252>>, STORE, <<2>>, <<>>, <<>>), "cp437", <<>>)

\* the archives of those files
WriterLists ==
    { <<FileF, FileG, FileH>>, <<FileI, FileJ, FileA>>, <<FileG, FileB>>,
      <<FileK>>, <<FileK, FileL>>, <<FileA, FileL>> }

\* the archive the single-byte and truncation damages are applied to
BaseFiles == <<FileA, FileB>>

BaseLen == Len(ZipWrite(BaseFiles, <<>>))

\* a compression method that decompressEntry does not know
UnsupportedMethod == 12

\* the cases: intact archives without and with a comment, and the archives
\* of the files zlib deflated, intact; one header's
\* signature, local header offset or compressed size damaged; the declared
\* directory pushed out of the buffer; one header's method set to Deflate
\* or to an unknown method, whatever the stored bytes are; every single byte of the base archive
\* set to 0 or to 127; every prefix of the base archive; a comment of the
\* greatest length; and as many bytes plus one after the EOCD record
Cases ==
    {Case(fs, cm, "none", 0, 0) : fs \in FileLists, cm \in {<<>>, <<33, 33>>}}
    \cup {Case(fs, <<>>, "none", 0, 0) : fs \in WriterLists}
    \cup UNION {{Case(fs, <<>>, dm, k, 0) : k \in 1..Len(fs), dm \in {"signature", "localheader", "data"}}
                : fs \in FileLists}
    \cup {Case(fs, <<>>, "directory", 0, 0) : fs \in FileLists}
    \cup UNION {{Case(fs, <<>>, "method", k, m) : k \in 1..Len(fs), m \in {DEFLATE, UnsupportedMethod}}
                : fs \in FileLists}
    \cup {Case(BaseFiles, <<>>, "byte", at, v) : at \in 0..(BaseLen - 1), v \in {0, 127}}
    \cup {Case(BaseFiles, <<>>, "truncate", at, 0) : at \in 0..(BaseLen - 1)}
    \cup {Case(<<FileA>>, <<>>, "comment", 0, MaxCommentLen),
          Case(<<FileA>>, <<>>, "append", 0, MaxCommentLen + 1)}

InitZipCall ==
    /\ dl_file = [i \in Tasks |-> "absent"]
    /\ InitDownload
    /\ InitDirectory
    /\ libraries = <<>>
    /\ ex_entries = <<>>
    /\ InitExtract
    /\ h_entry = NoEntry
    /\ InitHandle
    /\ sum_hash = <<>>
    /\ sum_file = "missing"
    /\ InitSum
    /\ zip_case \in Cases
    /\ zip_buffer = CaseBuffer(zip_case)
    /\ InitZip
    /\ InitRetry
    /\ InitBatches
    /\ InitJdk

NextZip == ParseIndex \/ DecompressEntries

SpecZip == InitZipCall /\ [][NextZip]_vars

(***************************************************************************)
(* Nothing called yet: the initial state of the specifications below       *)
(***************************************************************************)
InitQuiet ==
    /\ dl_file = [i \in Tasks |-> "absent"]
    /\ InitDownload
    /\ InitDirectory
    /\ libraries = <<>>
    /\ ex_entries = <<>>
    /\ InitExtract
    /\ h_entry = NoEntry
    /\ InitHandle
    /\ sum_hash = <<>>
    /\ sum_file = "missing"
    /\ InitSum
    /\ zip_case = NoCase
    /\ zip_buffer = <<>>
    /\ InitZip
    /\ InitRetry
    /\ InitBatches
    /\ InitJdk

(***************************************************************************)
(* SpecRetry: one withRetry call, the operation failing or succeeding at   *)
(* each invocation                                                         *)
(***************************************************************************)
NextRetry ==
    \/ \E retries \in 0..MaxRetries, delay \in Delays : CallWithRetry(retries, delay)
    \/ OperationResolves
    \/ OperationRejects
    \/ TimerFires

SpecRetry == InitQuiet /\ [][NextRetry]_vars

(***************************************************************************)
(* SpecBatches: two downloadToDirectory calls made one after the other,    *)
(* their downloads completing in any order                                 *)
(***************************************************************************)
NextBatches ==
    \/ \E b \in Batches, n \in 1..MaxLibraries, w \in 0..MaxLibraries :
           w <= n /\ StartBatchOf(b, n, w)
    \/ \E b \in Batches : TaskOf(b)
    \/ \E b \in Batches : ReturnBatchOf(b)

SpecBatches == InitQuiet /\ [][NextBatches]_vars

(***************************************************************************)
(* SpecJdk: one installJDK call and the extraction it starts               *)
(***************************************************************************)
\* the archive of a JDK: one top-level folder with the files below it
JdkArchives ==
    { <<Entry(<<"j", "/">>, STORE, "empty"),
        Entry(<<"j", "/", "b", "i", "n", "/", "j", "a", "v", "a">>, DEFLATE, "valid"),
        Entry(<<"j", "/", "l">>, STORE, "valid")>> }

\* javaDir when installJDK is called: not there, a file, empty, with a JDK
\* folder an earlier call extracted, with that folder and a directory in the
\* place of one of its files, with a directory in the place of the java
\* executable, with an installation, or with a folder that holds a folder
\* of its own name
JavaDirs ==
    { [dirs |-> {}, files |-> {}, data |-> {}],
      [dirs |-> {<<OutputDir>>, <<OutputDir, <<"j">>>>, <<OutputDir, <<"j">>, <<"j">>>>},
       files |-> {<<OutputDir, <<"j">>, <<"l">>>>, <<OutputDir, <<"j">>, <<"j">>, <<"l">>>>},
       data |-> {<<(<<OutputDir, <<"j">>, <<"l">>>>), Entry(<<"j", "/", "l">>, STORE, "valid")>>,
                 <<(<<OutputDir, <<"j">>, <<"j">>, <<"l">>>>),
                   Entry(<<"j", "/", "j", "/", "l">>, STORE, "valid")>>}],
      [dirs |-> {}, files |-> {<<OutputDir>>}, data |-> {}],
      [dirs |-> {<<OutputDir>>, <<OutputDir, <<"j">>>>, <<OutputDir, <<"l">>>>},
       files |-> {<<OutputDir, <<"j">>, <<"l">>>>},
       data |-> {<<(<<OutputDir, <<"j">>, <<"l">>>>), Entry(<<"j", "/", "l">>, STORE, "valid")>>}],
      [dirs |-> {<<OutputDir>>, <<OutputDir, <<"b", "i", "n">>>>, JavaExecutable},
       files |-> {}, data |-> {}],
      [dirs |-> {<<OutputDir>>}, files |-> {}, data |-> {}],
      [dirs |-> {<<OutputDir>>, <<OutputDir, <<"j">>>>},
       files |-> {<<OutputDir, <<"j">>, <<"l">>>>},
       data |-> {<<(<<OutputDir, <<"j">>, <<"l">>>>), Entry(<<"j", "/", "l">>, STORE, "valid")>>}],
      [dirs |-> {<<OutputDir>>, <<OutputDir, <<"b", "i", "n">>>>},
       files |-> {JavaExecutable},
       data |-> {<<JavaExecutable,
                   Entry(<<"j", "/", "b", "i", "n", "/", "j", "a", "v", "a">>, DEFLATE, "valid")>>}] }

InitJdkCall ==
    /\ dl_file = [i \in Tasks |-> "absent"]
    /\ InitDownload
    /\ InitDirectory
    /\ libraries = <<>>
    /\ ex_entries \in JdkArchives
    /\ ex_pc = "idle"
    /\ ex_next = 1
    /\ ex_active = <<>>
    /\ ex_state = [i \in Entries |-> "queued"]
    /\ ex_error = [i \in Entries |-> "none"]
    /\ ex_current = 0
    /\ ex_progress = <<>>
    /\ ex_createdDirs = {}
    /\ \E javaDir \in JavaDirs :
           /\ ex_dirs = javaDir.dirs
           /\ ex_files = javaDir.files
           /\ ex_data = javaDir.data
    /\ ex_run = 1
    /\ ex_first = NothingLeft
    /\ ex_mkdir = [i \in Entries |-> "none"]
    /\ h_entry = NoEntry
    /\ InitHandle
    /\ sum_hash = <<>>
    /\ sum_file = "missing"
    /\ InitSum
    /\ zip_case = NoCase
    /\ zip_buffer = <<>>
    /\ InitZip
    /\ InitRetry
    /\ InitBatches
    /\ jdk_pc = "idle"
    /\ jdk_archive \in ArchiveKinds
    /\ jdk_archive # "absent" => <<OutputDir>> \in ex_dirs
    /\ jdk_lookup = NoLookup

NextJdk ==
    \/ InstallJDK
    \/ \E ok \in BOOLEAN : UrlSettles(ok)
    \/ \E written \in DownloadResults : DownloadReturns(written)
    \/ RejectionUnhandled
    \/ Resume
    \/ \E i \in Entries : EarlyDone(i)
    \/ \E i \in Entries, ok \in BOOLEAN : MkdirDone(i, ok)
    \/ \E i \in Entries, ok \in BOOLEAN : StatDone(i, ok)
    \/ \E i \in Entries : InflateDone(i)
    \/ \E i \in Entries, r \in WriteOutcomes : WriteDone(i, r)
    \/ \E i \in Entries : RemoveFromPool(i)

SpecJdk == InitJdkCall /\ [][NextJdk]_vars

(***************************************************************************)
(* Properties of downloadAsync, checked under SpecDL                       *)
(***************************************************************************)
\* the call of task i has settled (returned, or rejected by what its catch
\* block threw) and its latest attempt failed otherwise than by a 404: a
\* non-2xx status, a response without body, a network error or the timeout
FailedNot404(i) ==
    /\ dl_pc[i] \in {"done", "rejected"}
    /\ \/ dl_last[i].kind \in {"network", "timeout", "nobody"}
       \/ dl_last[i].kind = "status" /\ dl_last[i].status # 404

\* C1: a downloadAsync call whose attempts all fail with a non-404 error has
\* made exactly two attempts when it was called with retry = true and exactly
\* one when called with retry = false; no call ever makes a third attempt.
\* (Violated: when the unlinkSync of the catch block throws, or the mkdirSync
\* of the recursive call, a call with retry = true is rejected after its one
\* failed attempt.)
C1_AttemptsByRetry ==
    \A i \in Tasks :
        /\ dl_attempts[i] <= 2
        /\ FailedNot404(i) => dl_attempts[i] = IF dl_retry0[i] THEN 2 ELSE 1

\* C8: when an attempt ends by a network error, the timeout or a write error,
\* the partially written file is deleted: once the call is over after failed
\* attempts, the destination file does not exist.
C8_NoFileAfterFailure ==
    \A i \in Tasks :
        (dl_pc[i] \in {"done", "crashed"}
            /\ dl_last[i].kind \in {"network", "timeout", "write"})
        => dl_file[i] = "absent"

\* an attempt of task i ends in this step on a response that is not ok
EndsOnStatus(i) ==
    /\ dl_last'[i] # dl_last[i]
    /\ dl_last'[i].kind = "status"

C10_TimerCoversAttempt ==
    \A i \in Tasks : dl_pc[i] \in InFlight => dl_timer[i] > 0

(***************************************************************************)
(* Properties of downloadToDirectory, checked under SpecDir                *)
(***************************************************************************)
\* the tasks whose path the batch returned
Returned == {libs[k] : k \in 1..Len(libs)}

\* C2: a library whose file exists with a SHA-1 other than the expected one
\* is downloaded again, by exactly one downloadLibrary call.
C2_OneRedownload ==
    dir_pc = "returned" =>
        \A i \in Tasks :
            (~SkippedTask(i) /\ libraries[i].artifact /\ libraries[i].url
                /\ lib_file0[i] = "bad")
            => lib_redo[i] = 1 /\ dl_attempts[i] >= 1

\* the file of library i was there, with the expected SHA-1, when the batch began
FileMatches(i) ==
    libraries[i].present /\ libraries[i].artifact /\ lib_file0[i] = "good"

\* C3 as stated: for a library whose file exists with the expected SHA-1 no
\* request is issued, and its path is in the returned list.
C3_PathReturned ==
    \A i \in Tasks : FileMatches(i) =>
        /\ dl_attempts[i] = 0
        /\ dir_pc = "returned" => i \in Returned

\* C3, amended: for a library that no rule excludes and whose file exists
\* with the expected SHA-1, no request is issued and its path is in the
\* returned list.
C3_PathReturnedUnlessExcluded ==
    \A i \in Tasks : (FileMatches(i) /\ ~parseRule(libraries[i])) =>
        /\ dl_attempts[i] = 0
        /\ lib_redo[i] = 0
        /\ dir_pc = "returned" => i \in Returned

\* the batch has returned the path of a library whose file matched, without
\* a request for it, after downloading another library
C3_ReturnedWithoutRequest ==
    /\ dir_pc = "returned"
    /\ \E i, j \in Tasks :
        /\ FileMatches(i) /\ ~parseRule(libraries[i])
        /\ i \in Returned
        /\ dl_attempts[i] = 0
        /\ dl_attempts[j] >= 1

(***************************************************************************)
(* Properties of extractAll, checked under SpecEx                          *)
(***************************************************************************)
\* the name of entry i, backslashes turned into slashes, has a ".." segment
HasDotDotSegment(i) ==
    \E k \in 1..Len(Split(SafeName(i))) : Split(SafeName(i))[k] = DotDot

\* processEntry is through with entry i
Attempted(i) == ex_state[i] \in {"settled", "removed"}

\* nothing but its name can keep entry i from being written: it is a file
\* entry that decompresses, and neither mkdir nor writeFile failed for it
Writable(i) ==
    /\ ~IsDirectory(i)
    /\ DecompressError(ex_entries[i]) = "none"
    /\ ex_error[i] \notin {"mkdir", "write"}

\* C4 as stated: an entry whose name has a ".." segment is rejected, no file
\* is ever written outside the output directory, and the other entries of
\* the archive, those without a ".." segment, are still extracted.
C4_OnlyDotDotSegmentsRejected ==
    /\ \A path \in ex_files : Inside(path)
    /\ \A i \in Entries : (HasDotDotSegment(i) /\ Attempted(i)) => ex_error[i] = "unsafe"
    /\ ex_pc = "resolved" =>
           \A i \in Entries : (~HasDotDotSegment(i) /\ Writable(i)) => TargetPath(i) \in ex_files

\* C4, amended: an entry whose name contains ".." anywhere, so every name
\* with a ".." segment but also a name such as a..b, is rejected, no file is
\* ever written outside the output directory, and the entries whose names
\* contain no ".." are still extracted.
C4_NamesWithDotDotRejected ==
    /\ \A path \in ex_files : Inside(path)
    /\ \A i \in Entries :
           ((HasDotDotSegment(i) \/ Includes(SafeName(i), DotDot)) /\ Attempted(i))
           => ex_error[i] = "unsafe"
    /\ ex_pc = "resolved" =>
           \A i \in Entries :
               (~Includes(SafeName(i), DotDot) /\ Writable(i)) => TargetPath(i) \in ex_files

\* extractAll has resolved on an archive with an entry that climbs out of the
\* output directory, rejected, and a later entry written
C4_RejectedAndWritten ==
    /\ ex_pc = "resolved"
    /\ \E i, j \in Entries :
        /\ HasDotDotSegment(i) /\ ~Inside(TargetPath(i))
        /\ ex_error[i] = "unsafe"
        /\ i < j
        /\ TargetPath(j) \in ex_files

\* C5: the failure of one entry (unsupported compression, malformed deflate
\* data, unsafe path, mkdir or write error) never rejects extractAll; when it
\* has resolved every entry was attempted, no file holds the bytes of the
\* failed entry (a write that failed may leave the file empty) and every
\* other valid entry is written.
C5_FailureIsolated ==
    /\ ex_pc # "rejected"
    /\ ex_pc = "resolved" =>
           \A i \in Entries :
               /\ Attempted(i)
               /\ ex_error[i] # "none" => <<TargetPath(i), ex_entries[i]>> \notin ex_data
               /\ ex_error[i] \notin {"none", "write"} => TargetPath(i) \notin ex_files
               /\ (ex_error[i] = "none" /\ ~IsDirectory(i)) => TargetPath(i) \in ex_files
               /\ (~Unsafe(i) /\ Writable(i)) => ex_error[i] = "none"

\* extractAll has resolved on an archive in which an entry failed and a
\* later entry was written
C5_FailedThenWritten ==
    /\ ex_pc = "resolved"
    /\ \E i, j \in Entries :
        /\ ex_error[i] \in {"method", "inflate", "write", "mkdir"}
        /\ i < j
        /\ ex_error[j] = "none"
        /\ TargetPath(j) \in ex_files

\* C6: onProgress is called with (0, total) before any entry is attempted
\* and then once for each attempted entry, the count running 1, 2, ..., N
\* and the total staying the number of entries.
C6_ProgressCounts ==
    /\ ex_pc = "idle" => ex_progress = <<>> /\ \A i \in Entries : ex_state[i] = "queued"
    /\ ex_pc # "idle" =>
           /\ Len(ex_progress) = 1 + Cardinality({i \in Entries : Attempted(i)})
           /\ \A k \in 1..Len(ex_progress) :
                  ex_progress[k] = [done |-> k - 1, total |-> Len(ex_entries)]
    /\ ex_pc = "resolved" => Len(ex_progress) = Len(ex_entries) + 1

\* extractAll has resolved on an archive with a failed entry, the last
\* progress call being (N, N)
C6_AllReported ==
    /\ ex_pc = "resolved"
    /\ Len(ex_entries) >= 3
    /\ \E i \in Entries : ex_error[i] # "none"
    /\ ex_progress[Len(ex_progress)] = [done |-> Len(ex_entries), total |-> Len(ex_entries)]

\* the entries started and not yet settled
Extracting == {i \in Entries : ex_state[i] \in InFlightStates}

\* C7: at no time are more than CONCURRENCY_LIMIT entries being extracted.
C7_AtMostLimitInFlight ==
    /\ Cardinality(Extracting) <= CONCURRENCY_LIMIT
    /\ Len(ex_active) <= CONCURRENCY_LIMIT

\* the pool is full while an entry waits for a place
C7_PoolFull ==
    /\ Cardinality(Extracting) = CONCURRENCY_LIMIT
    /\ \E i \in Entries : ex_state[i] = "queued"

(***************************************************************************)
(* Properties of an entry handle, checked under SpecEntry                  *)
(***************************************************************************)
\* what a call saw of the entry's data: bytes or an error
Observed(c) == IF h_calls[c].result = "writeerror" THEN "data" ELSE h_calls[c].result

\* C11: through one handle decompressEntry is not called before the first
\* getBuffer / getText / extractTo call and is called at most once whatever
\* calls are made and however they interleave; every call gets the outcome
\* of that one decompression.
C11_DecompressedOnce ==
    /\ Len(h_runs) <= 1
    /\ h_calls = <<>> => Len(h_runs) = 0 /\ h_cache = 0
    /\ \A c \in 1..Len(h_calls) : h_calls[c].run = 1
    /\ \A c, d \in 1..Len(h_calls) :
           (h_calls[c].pc = "done" /\ h_calls[d].pc = "done") => Observed(c) = Observed(d)

\* three calls of three kinds are through, the later ones served from the
\* cache, after one decompression
C11_ThreeCallsOneRun ==
    /\ Len(h_calls) = MaxCalls
    /\ {h_calls[c].op : c \in 1..Len(h_calls)} = HandleOps
    /\ \A c \in 1..Len(h_calls) : h_calls[c].pc = "done" /\ h_calls[c].result = "data"
    /\ \E c \in 1..Len(h_calls) : h_calls[c].cached
    /\ Len(h_runs) = 1

(***************************************************************************)
(* Properties of customCheckSum, checked under SpecSum                     *)
(***************************************************************************)
\* C12 as stated: customCheckSum resolves to true for every hash that is
\* the file's SHA-1 digest up to letter case, and to false for every other.
C12_CaseInsensitive ==
    sum_pc = "resolved" =>
        sum_result = (Readable(sum_file) /\ ToLower(sum_hash) = Sha1Hex(sum_file))

\* C12, amended: customCheckSum compares exactly: it resolves to true when
\* the hash is the file's lowercase hexadecimal SHA-1 digest character for
\* character, and to false for every other hash, also one that differs from
\* the digest in letter case only.
C12_ExactMatch ==
    sum_pc = "resolved" =>
        sum_result = (Readable(sum_file) /\ sum_hash = Sha1Hex(sum_file))

\* a call has resolved to false on a hash that is the digest in other case
C12_OtherCaseIsFalse ==
    /\ sum_pc = "resolved"
    /\ Readable(sum_file)
    /\ sum_hash # Sha1Hex(sum_file)
    /\ ToLower(sum_hash) = Sha1Hex(sum_file)
    /\ sum_result = FALSE

\* C13: customCheckSum never rejects: on a missing or unreadable file it
\* resolves to false, and the file is as it was before the call.
C13_NeverFails ==
    /\ sum_pc # "rejected"
    /\ sum_file = sum_file0
    /\ (sum_pc = "resolved" /\ ~Readable(sum_file)) => sum_result = FALSE
    /\ sum_pc = "resolved" => sum_result \in BOOLEAN

\* a call on a missing file has resolved to false
C13_MissingIsFalse ==
    /\ sum_pc = "resolved"
    /\ sum_file = "missing"
    /\ sum_result = FALSE

(***************************************************************************)
(* Properties of getEntriesFromCentralDirectory, checked under SpecZip     *)
(***************************************************************************)
\* the call has been made
Parsed == zip_result.status # "none"

\* the four signature bytes of an EOCD record stand at offset o
EocdSignatureAt(buf, o) ==
    buf[o + 1] = 80 /\ buf[o + 2] = 75 /\ buf[o + 3] = 5 /\ buf[o + 4] = 6

\* the offsets inside the last 65535 + 22 bytes at which a record of 22
\* bytes has room
EocdWindow(buf) ==
    {o \in 0..(Len(buf) - EOCD_MIN_SIZE) : o >= Len(buf) - (MaxCommentLen + EOCD_MIN_SIZE)}

\* the EOCD records of the window
EocdRecords(buf) == {o \in EocdWindow(buf) : EocdSignatureAt(buf, o)}

\* the last EOCD record of the window
LastEocd(buf) ==
    LET records == EocdRecords(buf)
    IN CHOOSE o \in records : \A x \in records : x <= o

\* the central directory the last EOCD record declares extends past it
DirectoryPastEocd(buf) ==
    LET eocd == LastEocd(buf)
    IN ReadUInt32LE(buf, eocd + 16) + ReadUInt32LE(buf, eocd + 12) > eocd

\* every read of the call lies inside the buffer
ReadsInside == \A r \in zip_result.reads : 0 <= r[1] /\ r[2] <= Len(zip_buffer)

\* C14: the call fails exactly when the last 65535 + 22 bytes of the buffer
\* hold no EOCD record (its signature at an offset where 22 bytes have room),
\* or when the directory the record declares (offset + size) extends past
\* the record; a buffer shorter than 22 bytes fails, and nothing is read
\* outside the buffer (of a short buffer nothing is read at all).
C14_FailsExactlyWhen ==
    Parsed =>
        /\ zip_result.status = "thrown"
               <=> (EocdRecords(zip_buffer) = {} \/ DirectoryPastEocd(zip_buffer))
        /\ ReadsInside
        /\ Len(zip_buffer) < EOCD_MIN_SIZE
               => zip_result.status = "thrown" /\ zip_result.reads = {}

\* the buffer holds an EOCD signature, but before its last 65535 + 22 bytes:
\* the call failed
C14_SignatureOutsideWindow ==
    /\ Parsed
    /\ zip_case.damage = "append"
    /\ \E o \in 0..(Len(zip_buffer) - (MaxCommentLen + EOCD_MIN_SIZE) - 1) :
           EocdSignatureAt(zip_buffer, o)
    /\ zip_result.status = "thrown"
    /\ zip_result.error = "eocd"
    /\ ReadsInside

\* the signature is found at the far end of the window
C14_SignatureAtWindowEdge ==
    /\ Parsed
    /\ zip_case.damage = "comment"
    /\ zip_result.status = "returned"
    /\ LastEocd(zip_buffer) = Len(zip_buffer) - (MaxCommentLen + EOCD_MIN_SIZE)

\* a buffer shorter than 22 bytes failed
C14_ShortBufferFails ==
    Parsed /\ Len(zip_buffer) < EOCD_MIN_SIZE /\ zip_result.status = "thrown"

\* the declared directory extends past the EOCD record: the call failed
C14_DirectoryPastEocdFails ==
    /\ Parsed
    /\ EocdRecords(zip_buffer) # {}
    /\ DirectoryPastEocd(zip_buffer)
    /\ zip_result.error = "corrupt"

\* one header of the archive was damaged: its signature, its local header
\* offset, or its data range
OneHeaderDamaged == zip_case.damage \in {"signature", "localheader", "data"}

\* what the index holds of a written file
Indexed(f) == [name |-> f.name, method |-> f.method, raw |-> Compressed(f)]

\* the index of the call, without the data offsets
IndexOf(result) ==
    [k \in 1..Len(result.entries) |->
        [name |-> result.entries[k].name, method |-> result.entries[k].method,
         raw |-> result.entries[k].raw]]

\* the written files but file `at`, in order
RECURSIVE AllBut(_, _, _)
AllBut(files, at, k) ==
    IF k > Len(files) THEN <<>>
    ELSE (IF k = at THEN <<>> ELSE <<Indexed(files[k])>>) \o AllBut(files, at, k + 1)

\* the written files before file `at`, in order
Before(files, at) == [k \in 1..(at - 1) |-> Indexed(files[k])]

\* a warning tells that fewer entries were recovered than declared
WarnsWhenFewer ==
    Len(zip_result.entries) < zip_result.declared
        => \E w \in 1..Len(zip_result.warnings) : zip_result.warnings[w] = "count"

\* C15 as stated: with one malformed header (wrong signature, local header
\* offset or data range out of bounds) the call does not fail, skips that
\* header, indexes every well-formed header after it, and warns when fewer
\* entries than declared were recovered.
C15_SkipsAnyMalformed ==
    (Parsed /\ OneHeaderDamaged) =>
        /\ zip_result.status = "returned"
        /\ IndexOf(zip_result) = AllBut(zip_case.files, zip_case.at, 1)
        /\ WarnsWhenFewer

\* C15 amended: with one malformed header the call does not fail and warns
\* when fewer entries than declared were recovered; a header whose local
\* header offset or data range is out of bounds is skipped and every
\* well-formed header after it is indexed, while a header with a wrong
\* signature ends the parse: the headers before it are indexed, it and the
\* headers after it are not.
C15_SkipsOutOfBoundsStopsAtSignature ==
    (Parsed /\ OneHeaderDamaged) =>
        /\ zip_result.status = "returned"
        /\ IndexOf(zip_result) =
               IF zip_case.damage = "signature"
               THEN Before(zip_case.files, zip_case.at)
               ELSE AllBut(zip_case.files, zip_case.at, 1)
        /\ WarnsWhenFewer

\* a header with an out-of-bounds local header offset was skipped, a header
\* after it indexed, and the warning given
C15_SkippedThenIndexed ==
    /\ Parsed
    /\ zip_case.damage = "localheader"
    /\ zip_case.at < Len(zip_case.files)
    /\ zip_result.status = "returned"
    /\ \E k \in 1..Len(zip_result.entries) :
           zip_result.entries[k].name = zip_case.files[zip_case.at + 1].name
    /\ \E w \in 1..Len(zip_result.warnings) : zip_result.warnings[w] = "count"

\* a header with a wrong signature ended the parse although a well-formed
\* header followed
C15_StoppedAtSignature ==
    /\ Parsed
    /\ zip_case.damage = "signature"
    /\ zip_case.at < Len(zip_case.files)
    /\ zip_result.status = "returned"
    /\ Len(zip_result.entries) = zip_case.at - 1

\* a central directory header stands at offset h of the buffer, whole
HeaderAt(buf, h) ==
    /\ InBounds(buf, h, MIN_CDFH_SIZE)
    /\ SubSeq(buf, h + 1, h + 4) = <<80, 75, 1, 2>>

\* entry e is what the header at offset h describes: its name, a compressed
\* size equal to the length of its raw bytes, and raw bytes that are the
\* bytes of the buffer from localHeaderOffset + 30 + the name length and the
\* extra length of the local header on
DescribedBy(buf, e, h) ==
    LET nameLength == ReadUInt16LE(buf, h + 28)
        compressedSize == ReadUInt32LE(buf, h + 20)
        localHeaderOffset == ReadUInt32LE(buf, h + 42)
    IN /\ e.name = ToStringUtf8(SubSeq(buf, h + MIN_CDFH_SIZE + 1, h + MIN_CDFH_SIZE + nameLength))
       /\ e.method = ReadUInt16LE(buf, h + 10)
       /\ Len(e.raw) = compressedSize
       /\ InBounds(buf, localHeaderOffset, MIN_LOCAL_HEADER_SIZE)
       /\ e.start = localHeaderOffset + MIN_LOCAL_HEADER_SIZE
                      + ReadUInt16LE(buf, localHeaderOffset + 26)
                      + ReadUInt16LE(buf, localHeaderOffset + 28)
       /\ e.start + Len(e.raw) <= Len(buf)
       /\ e.raw = SubSeq(buf, e.start + 1, e.start + Len(e.raw))

\* C16: every entry of the index has raw bytes of exactly the compressed
\* size its central directory header gives, lying wholly inside the buffer
\* and starting at localHeaderOffset + 30 + the name length and the extra
\* field length read from the local header; no read of the call goes
\* outside the buffer.
C16_RawBytesInsideBuffer ==
    Parsed =>
        /\ ReadsInside
        /\ \A k \in 1..Len(zip_result.entries) :
               \E h \in 0..Len(zip_buffer) :
                   HeaderAt(zip_buffer, h) /\ DescribedBy(zip_buffer, zip_result.entries[k], h)

\* two entries were indexed, one of them with data behind a local header
\* whose extra field is longer than that of the central header, while the
\* compressed size of another header reached beyond the buffer
C16_IndexedBesideOversized ==
    /\ Parsed
    /\ zip_case.damage = "data"
    /\ Len(zip_result.entries) = 2
    /\ \E k \in 1..2 :
           /\ zip_result.entries[k].name = FileB.name
           /\ zip_result.entries[k].raw = Deflate(FileB.data)

\* the archive is as the writer made it
Intact == zip_case.damage = "none"

\* the name of f is written as UTF-8: the writer encodes names so, or the
\* name is ASCII, which every charset writes alike
Utf8Named(f) == NameBytes(f) = NameBytes(Written(f, "utf8", f.stream))

\* the index holds the names of the archive in their order, and the entry of
\* every name decompresses to the bytes written under it
RoundTrip ==
    /\ zip_result.status = "returned"
    /\ Len(zip_result.entries) = Len(zip_case.files)
    /\ \A k \in 1..Len(zip_case.files) :
           /\ zip_result.entries[k].name = zip_case.files[k].name
           /\ decompressEntry(zip_result.entries[k])
                  = [ok |-> TRUE, data |-> zip_case.files[k].data]

\* C17 as stated: for an archive of Stored and Deflate entries as a writer
\* makes it, the index holds exactly the names of the archive, and
\* decompressing the entry of a name gives the bytes that were written under
\* that name. (Violated: names are decoded as UTF-8 whatever bit 11 of the
\* flags says, so a name written in code page 437 is indexed under another
\* name, and two such names can fall on the same one.)
C17_RoundTrip == (Parsed /\ Intact) => RoundTrip

\* the round trip of C17: for an archive of Stored and Deflate entries as a writer makes it
\* whose names are written as UTF-8, the index holds exactly the names of the
\* archive, and decompressing the entry of a name gives the bytes that were
\* written under that name, whatever blocks the deflate stream is made of.
C17_RoundTripOfUtf8Names ==
    (Parsed /\ Intact /\ \A k \in 1..Len(zip_case.files) : Utf8Named(zip_case.files[k]))
        => RoundTrip

\* an archive of three deflated files with names of two, three and four
\* bytes a character was parsed and every entry decompressed to its data:
\* from a block of fixed codes with a match, from a block of dynamic codes,
\* and from three blocks, one of them stored, behind a local extra field
C17_DeflatedFilesRecovered ==
    /\ Parsed
    /\ Intact
    /\ zip_case.files = <<FileF, FileG, FileH>>
    /\ zip_out.done
    /\ Len(zip_out.results) = 3
    /\ \A k \in 1..3 :
           /\ zip_result.entries[k].name = zip_case.files[k].name
           /\ zip_out.results[k].inflate
           /\ zip_out.results[k].ok
           /\ zip_out.results[k].data = zip_case.files[k].data
    /\ BitsAt(zip_result.entries[2].raw, 1, 2) = 2

(***************************************************************************)
(* Directory entries in extractAll, checked under SpecEx                   *)
(***************************************************************************)
\* the name of entry i ends in "/"
DirectoryMarker(i) ==
    Len(ex_entries[i].name) > 0 /\ ex_entries[i].name[Len(ex_entries[i].name)] = "/"

FileEntries == {i \in Entries : ~DirectoryMarker(i)}

\* C19 as stated: the total given to onProgress is the number of entries
\* that are not directories, and a directory entry neither counts nor
\* produces a callback: an archive of two files and one directory marker
\* yields (0,2), (1,2), (2,2).
C19_DirectoriesNotCounted ==
    /\ ex_pc # "idle" =>
           /\ \A k \in 1..Len(ex_progress) :
                  ex_progress[k] = [done |-> k - 1, total |-> Cardinality(FileEntries)]
           /\ Len(ex_progress) = 1 + Cardinality({i \in FileEntries : Attempted(i)})
    /\ (ex_pc = "resolved" /\ Cardinality(FileEntries) = 2 /\ Len(ex_entries) = 3) =>
           ex_progress = <<[done |-> 0, total |-> 2], [done |-> 1, total |-> 2],
                           [done |-> 2, total |-> 2]>>

\* C19 amended: the total given to onProgress is the number of all entries,
\* directory entries included, and a directory entry counts and produces a
\* callback as a file entry does: an archive of two files and one directory
\* marker yields (0,3), (1,3), (2,3), (3,3).
C19_DirectoriesCounted ==
    /\ ex_pc # "idle" =>
           /\ \A k \in 1..Len(ex_progress) :
                  ex_progress[k].total
                      = Cardinality(FileEntries) + Cardinality(Entries \ FileEntries)
           /\ Len(ex_progress) = 1 + Cardinality({i \in FileEntries : Attempted(i)})
                                   + Cardinality({i \in Entries \ FileEntries : Attempted(i)})
    /\ (ex_pc = "resolved" /\ Cardinality(FileEntries) = 2 /\ Len(ex_entries) = 3) =>
           ex_progress = <<[done |-> 0, total |-> 3], [done |-> 1, total |-> 3],
                           [done |-> 2, total |-> 3], [done |-> 3, total |-> 3]>>

\* the archive of two files and one directory marker was extracted, both
\* files written, and onProgress called four times
C19_TwoFilesOneDirectory ==
    /\ ex_pc = "resolved"
    /\ Cardinality(FileEntries) = 2
    /\ Len(ex_entries) = 3
    /\ \A i \in FileEntries : TargetPath(i) \in ex_files
    /\ Len(ex_progress) = 4
    /\ ex_progress[4] = [done |-> 3, total |-> 3]

\* the directories that mkdir made for a file entry: the parent of the
\* entry's target and the directories above it
MadeForFiles ==
    UNION {Ancestors(ParentDir(j)) :
              j \in {i \in FileEntries : ex_state[i] \in {"inflate", "write", "settled", "removed"}
                                         /\ ex_error[i] # "mkdir"}}

\* the directory the target path of a directory marker names
MarkerPath(i) == WithoutSeparator(TargetPath(i))

\* C20 as stated: every entry whose name ends in "/" makes that directory
\* exist after extraction, also when no file entry lies beneath it, and
\* writes no file.
C20_DirectoryMarkersCreated ==
    ex_pc = "resolved" =>
        \A i \in Entries \ FileEntries :
            ~Unsafe(i) => MarkerPath(i) \in ex_dirs /\ MarkerPath(i) \notin ex_files

\* C20 amended: an entry whose name ends in "/" is skipped: it writes no
\* file, fails on nothing and creates no directory.  The directories that
\* exist are those made for the file entries, so the directory of a marker
\* exists after extraction only when a file entry beneath it was extracted.
C20_DirectoryMarkersSkipped ==
    /\ \A i \in Entries \ FileEntries :
           /\ MarkerPath(i) \notin ex_files
           /\ ex_state[i] \in {"queued", "early", "settled", "removed"}
           /\ ~Unsafe(i) => ex_error[i] = "none"
    /\ ex_dirs \subseteq MadeForFiles
    /\ ex_pc = "resolved" =>
           \A i \in Entries \ FileEntries :
               MarkerPath(i) \in ex_dirs =>
                   \E j \in FileEntries : MarkerPath(i) \in Ancestors(ParentDir(j))

\* extraction has ended, a file beneath one directory marker is written, and
\* the directory of a marker with no file beneath does not exist
C20_MarkerWithoutDirectory ==
    /\ ex_pc = "resolved"
    /\ \E i \in Entries \ FileEntries :
           /\ Attempted(i)
           /\ ex_error[i] = "none"
           /\ MarkerPath(i) \notin ex_dirs
    /\ \E j \in FileEntries : Len(ParentDir(j)) > 1 /\ TargetPath(j) \in ex_files

(***************************************************************************)
(* extractAll called twice, checked under SpecTwice                        *)
(***************************************************************************)
\* no mkdir and no writeFile call failed for an entry of a run with these
\* errors
NoFault(error) == \A i \in Entries : error[i] \notin {"mkdir", "write"}

\* the second call has resolved, and the file system failed neither call
TwiceDone ==
    /\ ex_run = 2
    /\ ex_pc = "resolved"
    /\ NoFault(ex_first.error)
    /\ NoFault(ex_error)

\* C18: when extractAll has run twice on the same archive and directory, the
\* files, their contents and the directories are those the first run left,
\* and the second run failed on no entry the first run did not fail on: that
\* the files exist makes no entry fail.  No file the first run left is
\* missing at any time of the second run.
C18_SecondRunLeavesSame ==
    /\ ex_run = 2 => ex_first.files \subseteq ex_files
    /\ TwiceDone =>
           /\ ex_files = ex_first.files
           /\ ex_data = ex_first.data
           /\ ex_dirs = ex_first.dirs
           /\ ex_error = ex_first.error

\* both runs have ended, the second having written again the two files that
\* the first run had written
C18_TwoFilesWrittenTwice ==
    /\ TwiceDone
    /\ Cardinality(ex_first.files) = 2
    /\ Cardinality(ex_files) = 2
    /\ \A i \in Entries : ex_error[i] = "none"
    /\ ex_current = Len(ex_entries)

(***************************************************************************)
(* Directory creation in extractAll, checked under SpecRace                *)
(***************************************************************************)
\* the step in which entry i is through with its parent directory: mkdir is
\* fulfilled, or it was rejected and stat has answered
MkdirEnds(i) == ex_state[i] \in {"mkdir", "stat"} /\ ex_state'[i] \notin {"mkdir", "stat"}

\* mkdir of entry i is rejected in this step
MkdirRejected(i) == ex_state[i] = "mkdir" /\ ex_state'[i] = "stat"

\* C21: an entry whose directory-creation call failed is not failed by that:
\* stat is asked, and when it answers with a directory, as it can when an
\* entry in flight beside it made the directory, the entry records the
\* directory in createdDirs and goes on to decompress and write.  An entry
\* goes on only with its parent directory there and recorded; it fails on
\* creating its directory only after stat, when stat was rejected (the path
\* is missing or cannot be looked at) or the path is not a directory, and it
\* always fails then when the path is missing.  An entry whose call failed on
\* an existing directory has its file written unless writeFile fails.
C21_AcceptedWhenStatConfirms ==
    /\ [][\A i \in Entries :
            /\ MkdirEnds(i) =>
                IF ex_state'[i] = "inflate"
                THEN /\ ParentDir(i) \in ex_dirs'
                     /\ ParentDir(i) \in ex_createdDirs'
                     /\ ex_error'[i] = "none"
                ELSE /\ ex_state[i] = "stat"
                     /\ ex_state'[i] = "settled"
                     /\ ex_error'[i] = "mkdir"
            /\ (MkdirEnds(i) /\ ParentDir(i) \notin ex_dirs') => ex_error'[i] = "mkdir"
            /\ MkdirRejected(i) => (ex_error'[i] = "none" /\ ex_current' = ex_current)]_vars
    /\ [](\A i \in Entries :
            /\ ex_error[i] = "mkdir" <=> ex_mkdir[i] = "fail"
            /\ (ex_mkdir[i] = "exists" /\ Attempted(i) /\ ex_error[i] = "none")
                   => TargetPath(i) \in ex_files)

\* C21 as stated: whenever the directory-creation call of an entry is over,
\* stat included, and the parent directory exists as a directory by then, the
\* entry records it and goes on; the entry fails on creating its directory
\* only when the path does not exist as a directory.
C21_RaceAccepted ==
    /\ [][\A i \in Entries :
            /\ MkdirEnds(i) =>
                IF ParentDir(i) \in ex_dirs'
                THEN /\ ex_state'[i] = "inflate"
                     /\ ParentDir(i) \in ex_createdDirs'
                     /\ ex_error'[i] = "none"
                ELSE /\ ex_state'[i] = "settled"
                     /\ ex_error'[i] = "mkdir"
            /\ MkdirRejected(i) => (ex_error'[i] = "none" /\ ex_current' = ex_current)]_vars
    /\ [](\A i \in Entries :
            /\ ex_error[i] = "mkdir" <=> ex_mkdir[i] = "fail"
            /\ (ex_mkdir[i] = "exists" /\ Attempted(i) /\ ex_error[i] = "none")
                   => TargetPath(i) \in ex_files)

\* the mkdir call of an entry failed on a directory that an entry in flight
\* beside it had made; the entry recorded the directory and its file is
\* written
C21_AcceptedAndWritten ==
    \E i, j \in Entries :
        /\ i # j
        /\ ex_mkdir[i] = "exists"
        /\ ex_mkdir[j] = "ok"
        /\ ParentDir(i) \in Ancestors(ParentDir(j))
        /\ ParentDir(i) \in ex_createdDirs
        /\ TargetPath(i) \in ex_files

\* an entry failed because a file stands where its parent directory should
C21_ParentIsFile ==
    \E i \in Entries :
        /\ ex_mkdir[i] = "fail"
        /\ ex_error[i] = "mkdir"
        /\ ParentDir(i) \in ex_files

(***************************************************************************)
(* The progress counter of one batch, checked under SpecDir                *)
(***************************************************************************)
\* C22: in a batch that runs alone, the progress events carry the completed
\* values 1, 2, 3, ... in this order, one for each task that has settled,
\* none of them above the total, and the counter is 0 once the batch call
\* has returned.  (A batch call that was rejected has not reset the counter,
\* which goes on counting the tasks that settle after the rejection.)
C22_CounterRunsAndResets ==
    /\ \A k \in 1..Len(progress) :
           /\ progress[k].task = k
           /\ progress[k].task <= progress[k].total
           /\ progress[k].total = Len(libraries)
    /\ Len(progress) = Cardinality({i \in Tasks : lib_pc[i] = "finished"})
    /\ dir_pc \in {"waiting", "rejected"} => counter = Len(progress)
    /\ dir_pc = "returned" => counter = 0

\* the batch has returned after every task settled, one of them on a
\* download that failed: the events ran 1, 2, ... up to the total and the
\* counter is 0
C22_AllSettledAndReset ==
    /\ dir_pc = "returned"
    /\ Len(progress) = NumTasks
    /\ progress[Len(progress)] = [task |-> NumTasks, total |-> NumTasks]
    /\ counter = 0
    /\ \E i \in Tasks : dl_last[i].kind = "network"

(***************************************************************************)
(* Failures inside a batch, checked under SpecDir                          *)
(***************************************************************************)
\* the tasks that no rule and no missing library skips
BatchTasks == {i \in Tasks : libraries[i].present /\ ~parseRule(libraries[i])}

\* C23: the failure of the download of one task ends neither the batch nor
\* the download of another task: the batch call is never rejected; while the
\* batch waits no call is cut off,
\* so that every task can settle and the call resolve; and when it has
\* resolved every task has settled and one path is returned for each task
\* that was not skipped.
C23_TaskFailureIsolated ==
    /\ dir_pc # "rejected"
    /\ dir_pc = "waiting" => \A i \in Tasks : dl_pc[i] # "crashed"
    /\ dir_pc = "returned" =>
           /\ \A i \in Tasks : lib_pc[i] \in {"finished", "skipped"}
           /\ Returned = BatchTasks
           /\ Len(libs) = Cardinality(BatchTasks)

\* the write error of one task has cut off the download of another task,
\* which had not failed, and the batch call is still waiting
C23_OtherTaskCutOff ==
    /\ dir_pc = "waiting"
    /\ \E i, j \in Tasks :
           /\ i # j
           /\ dl_last[j].kind = "write"
           /\ dl_pc[i] = "crashed"
           /\ dl_last[i] = NoOutcome

(***************************************************************************)
(* decompressEntry on empty payloads, checked under SpecZip                *)
(***************************************************************************)
\* decompressEntry has been called on the entries of the index
Decompressed == zip_out.done

\* C24: for an entry whose compressed payload has length zero, stored or
\* deflated, decompressEntry gives a result of length zero, and for no entry
\* with such a payload is inflateRaw called.
C24_EmptyPayloadNotInflated ==
    Decompressed =>
        \A k \in 1..Len(zip_result.entries) :
            Len(zip_result.entries[k].raw) = 0 =>
                /\ ~zip_out.results[k].inflate
                /\ zip_result.entries[k].method \in {STORE, DEFLATE}
                       => zip_out.results[k].ok /\ zip_out.results[k].data = <<>>

\* a deflated entry with a payload of length zero was decompressed to
\* nothing, beside a deflated entry that was inflated
C24_EmptyDeflateEntry ==
    /\ Decompressed
    /\ \E k, m \in 1..Len(zip_result.entries) :
           /\ zip_result.entries[k].method = DEFLATE
           /\ Len(zip_result.entries[k].raw) = 0
           /\ zip_out.results[k] = [ok |-> TRUE, data |-> <<>>, inflate |-> FALSE]
           /\ zip_out.results[m].inflate
           /\ zip_out.results[m].ok


(***************************************************************************)
(* Properties of withRetry, checked under SpecRetry                        *)
(***************************************************************************)
RECURSIVE TwoToThe(_)
TwoToThe(k) == IF k = 0 THEN 1 ELSE 2 * TwoToThe(k - 1)

\* every operation call before call c was rejected
AllFailedBefore(c) == \A k \in 1..(c - 1) : rt_calls[k] = "rejected"

\* C25: withRetry(operation, retries, delay) calls the operation at most
\* retries + 1 times; it returns the value of the first call that succeeds and
\* makes no call after it; the wait before retry number k + 1 is
\* delay * 2^k; after retries + 1 failed calls it throws the error of the last
C25_RetriesWithBackoff ==
    /\ Len(rt_calls) <= rt_args.retries + 1
    /\ \A k \in 1..Len(rt_waits) : rt_waits[k] = rt_args.delay * TwoToThe(k - 1)
    /\ Len(rt_waits) = IF rt_pc = "timer" THEN Len(rt_calls)
                       ELSE IF rt_pc = "idle" THEN 0 ELSE Len(rt_calls) - 1
    /\ rt_pc = "returned" =>
           /\ rt_result = [kind |-> "value", call |-> Len(rt_calls)]
           /\ rt_calls[Len(rt_calls)] = "resolved"
           /\ AllFailedBefore(Len(rt_calls))
    /\ rt_pc = "thrown" =>
           /\ rt_result = [kind |-> "error", call |-> rt_args.retries + 1]
           /\ Len(rt_calls) = rt_args.retries + 1
           /\ AllFailedBefore(Len(rt_calls) + 1)
    /\ rt_pc \in {"idle", "operation", "timer"} => rt_result = NotSettled

\* the third call succeeded, after waits of 1000 and 2000 milliseconds
C25_ThirdCallSucceeds ==
    /\ rt_pc = "returned"
    /\ rt_args = [retries |-> 3, delay |-> 1000]
    /\ rt_calls = <<"rejected", "rejected", "resolved">>
    /\ rt_waits = <<1000, 2000>>

\* every one of the four calls failed
C25_AllCallsFailed ==
    /\ rt_pc = "thrown"
    /\ rt_args.retries = 3
    /\ Len(rt_calls) = 4

(***************************************************************************)
(* Properties of an entry handle's extractTo, checked under SpecEntry      *)
(***************************************************************************)
\* C26: extractTo of a handle rejects an entry whose name has a '..' segment,
\* and no file it writes lies outside the destination directory
C26_ExtractToStaysInside ==
    /\ \A f \in h_files : Inside(f)
    /\ \A c \in 1..Len(h_calls) :
           (h_calls[c].op = "extractTo" /\ h_calls[c].pc = "done"
               /\ Includes(ReplaceBackslashes(h_entry.name), DotDot))
           => h_calls[c].result \notin {"data"}

(***************************************************************************)
(* Properties of overlapping batches, checked under SpecBatches            *)
(***************************************************************************)
\* C27: when two downloadToDirectory batches overlap, the progress events of
\* each batch report values that are at most the batch's own total and
\* strictly increasing within the batch; one batch completing does not set
\* back what the other reports
C27_BatchesCountApart ==
    \A b \in Batches :
        \A k \in 1..Len(tb_progress[b]) :
            /\ tb_progress[b][k].total = tb_total[b]
            /\ tb_progress[b][k].task <= tb_total[b]
            /\ k > 1 => tb_progress[b][k].task > tb_progress[b][k - 1].task

(***************************************************************************)
(* Properties of a returned downloadAsync call, checked under SpecDL       *)
(***************************************************************************)
\* the call of task i has returned
CallReturned(i) == dl_pc[i] = "done"

\* C28: the promise of downloadAsync settles only after its retry attempt has
\* finished: once the call has returned, no attempt of the task is in flight
\* (no attempt's timer or stream is left), and the destination file is not
\* written or deleted by the call any more
C28_NothingAfterReturn ==
    /\ [](\A i \in Tasks : CallReturned(i) =>
             /\ dl_timer[i] = 0
             /\ dl_stream[i] = "none"
             /\ dl_orphan[i] = 0)
    /\ [][\A i \in Tasks : (CallReturned(i) /\ dl_pc'[i] = "done") =>
             dl_file'[i] = dl_file[i]]_vars

(***************************************************************************)
(* Properties of installJDK, checked under SpecJdk                         *)
(***************************************************************************)
\* the step in which installJDK looks up the JDK folder (and, when it finds
\* one, copies it, removes it and deletes the archive)
LooksUpFolder == ~jdk_lookup.done /\ jdk_lookup'.done

\* C29: installJDK looks up the extracted JDK folder, copies it into place
\* and deletes the archive only after the extraction of every entry has
\* completed: when that step is taken the extract call has resolved and no
\* entry is queued or in flight
C29_RelocatesAfterExtraction ==
    [][LooksUpFolder =>
          /\ ex_pc' = "resolved"
          /\ \A i \in Entries : ex_state'[i] = "removed"]_vars

(***************************************************************************)
(* Termination of extractAll, checked under SpecExFair                     *)
(***************************************************************************)
\* how far an entry has come
Stage(st) ==
    IF st = "queued" THEN 0
    ELSE IF st \in {"early", "mkdir"} THEN 1
    ELSE IF st = "stat" THEN 2
    ELSE IF st = "inflate" THEN 3
    ELSE IF st = "write" THEN 4
    ELSE IF st = "settled" THEN 5
    ELSE 6

\* entry i is handed to the pool in this step
HandedOut(i) == ex_state[i] = "queued" /\ ex_state'[i] # "queued"

\* C30: in whatever order the entries settle, an extractAll call that was
\* made resolves in the end, given that every entry settles; when it has
\* resolved every entry was handed to the pool and none is in flight; entries
\* are handed out in order, each once, and no entry is started over
C30_ResolvesWithAllHandedOut ==
    /\ (ex_pc # "idle") ~> (ex_pc = "resolved")
    /\ [](ex_pc = "resolved" =>
             /\ ex_next = Len(ex_entries) + 1
             /\ ex_active = <<>>
             /\ ex_current = Len(ex_entries)
             /\ \A i \in Entries : ex_state[i] = "removed")
    /\ [](\A j, k \in 1..Len(ex_active) : j # k => ex_active[j] # ex_active[k])
    /\ [][\A i \in Entries :
             /\ Stage(ex_state'[i]) >= Stage(ex_state[i])
             /\ HandedOut(i) => (i >= ex_next /\ i < ex_next'
                                   /\ ex_active'[Len(ex_active') - (ex_next' - 1 - i)] = i)]_vars

\* an archive with more entries than the pool takes has been extracted
C30_LargeArchiveResolved ==
    /\ ex_pc = "resolved"
    /\ Len(ex_entries) > CONCURRENCY_LIMIT
    /\ ex_current = Len(ex_entries)
    /\ \A i \in Entries : ex_state[i] = "removed"

====
